---- MODULE Spec2Model ----
(***************************************************************************)
(* Model of the kidsopencode chat client: App (static/js/app.js), the      *)
(* EventStream decoder (static/js/events.js) and the DOM components        *)
(* (static/js/components.js) that hold the rendered transcript.            *)
(*                                                                         *)
(* The chat container is a sequence of message elements; the children of   *)
(* an assistant message's .message-content are its thinking section (kept  *)
(* apart: it is always inserted as first child), the sequence `parts` and  *)
(* the transient streaming indicator.  Strings that the code concatenates  *)
(* are sequences of characters; absent / null / undefined values of other  *)
(* fields are the string NULL.                                             *)
(***************************************************************************)
EXTENDS Integers, Sequences, FiniteSets, Bags, TLC

VARIABLES
    currentView,               \* App.currentView ("projects" or "chat")
    currentProject,            \* App.currentProject (NULL or a project)
    currentSession,            \* App.currentSession (NULL or a session id)
    isFirstMessageInSession,   \* App.isFirstMessageInSession
    isStreaming,               \* App.isStreaming
    isQuestionPending,         \* App.isQuestionPending
    pendingQuestionRequestId,  \* App.pendingQuestionRequestId
    currentMessageEl,          \* App.currentMessageEl: index in chatContainer, 0 = null
    currentMessageText,        \* App.currentMessageText
    activeSubagents,           \* App.activeSubagents: sub-agent id -> panel reference
    eventStream,               \* App.eventStream: index in streams, 0 = null
    stopBtn,                   \* stop button "shown"/"hidden" (send buttons are the complement)
    chatContainer,             \* children of #chat-container (welcome message left out)
    streams,                   \* the EventStream objects created so far
    sessions,                  \* App.sessions: ids offered by the session dropdown
    personalRules,             \* App.personalRules
    tasks,                     \* bag of the async calls suspended at one of their awaits
    recorded                   \* wire events delivered since the current assistant message began

vars == << currentView, currentProject, currentSession, isFirstMessageInSession, isStreaming,
           isQuestionPending, pendingQuestionRequestId, currentMessageEl,
           currentMessageText, activeSubagents, eventStream, stopBtn,
           chatContainer, streams, sessions, personalRules, tasks, recorded >>

NULL == "null"

\* ------------------------------------------------------------------ bounds
MaxTasks   == 1    \* async calls suspended at the same time
MaxChat    == 4    \* message elements in the chat container
MaxParts   == 2    \* children of one message's .message-content
MaxText    == 1    \* characters of accumulated text
MaxStreams == 2    \* EventStream objects alive at the same time
MaxRec     == 3    \* recorded wire events of one message
MaxLoads   == 2    \* session switches whose history load is awaited at the same time
MaxSends   == 2    \* sendMessage calls suspended at the same time

\* ------------------------------------------------------------------ values
Projects       == {"P"}
ServerSessions == {"A"}
NewSessionId   == "N"
SubIds         == {"s1"}
QuestionIds    == {"q1", "q2"}
QuestionsInput == "questions"     \* a tool input object that carries .questions

EmptyText == << >>

\* ------------------------------------------------------------ DOM elements
\* One child of .message-content.  kind: "tool" (.tool-result), "subagent"
\* (.subagent-panel), "question" (interactive questionnaire), "answered"
\* (read-only answered question), "text" (.message-text).
NewPart(kind) ==
    [kind |-> kind, toolId |-> NULL, tool |-> NULL, status |-> NULL,
     input |-> NULL, output |-> NULL, error |-> NULL, title |-> NULL,
     text |-> EmptyText, req |-> NULL, disabled |-> FALSE]

createUserMessage(text) ==
    [role |-> "user", utext |-> text, thinking |-> EmptyText,
     parts |-> << >>, indicator |-> FALSE]

createAssistantMessage ==
    [role |-> "assistant", utext |-> EmptyText, thinking |-> EmptyText,
     parts |-> << >>, indicator |-> FALSE]

IndexOf(parts, P(_)) ==
    IF \E i \in 1..Len(parts) : P(parts[i])
    THEN CHOOSE i \in 1..Len(parts) : P(parts[i]) /\ \A j \in 1..(i-1) : ~P(parts[j])
    ELSE 0

\* appendTextToMessage(messageEl, text): creates .message-text at the tail of
\* the container when missing, then renders text into it.
appendTextToMessage(msg, text) ==
    LET IsText(p) == p.kind = "text"
        i == IndexOf(msg.parts, IsText)
    IN IF i = 0
       THEN [msg EXCEPT !.parts = Append(@, [NewPart("text") EXCEPT !.text = text])]
       ELSE [msg EXCEPT !.parts[i].text = text]

\* addThinkingSection that appends the text to the section's content
addThinkingSectionAppends(msg, text) == [msg EXCEPT !.thinking = @ \o text]

\* addThinkingSection(messageEl, text): no-op on empty text, else creates the
\* section as first child or overwrites its content.
addThinkingSection(msg, text) ==
    IF text = EmptyText THEN msg ELSE [msg EXCEPT !.thinking = text]

Truthy(v) == v # NULL

\* addToolResult(messageEl, toolData): a new .tool-result at the tail, showing
\* status, input, output, error and title || tool.
addToolResult(msg, d) ==
    [msg EXCEPT !.parts = Append(@,
        [NewPart("tool") EXCEPT !.tool = d.tool, !.status = d.status,
                                 !.input = d.input, !.output = d.output,
                                 !.error = d.error,
                                 !.title = IF Truthy(d.title) THEN d.title ELSE d.tool])]

\* updateToolStatus as it would be if every argument were written to the
\* element, null or not
updateToolStatusReplaces(p, status, output, input, error) ==
    [p EXCEPT !.status = status, !.input = input, !.output = output,
              !.error = error]

\* updateToolStatus(toolEl, status, output, input, error): status always,
\* input / output / error only when truthy; the title is not touched.
updateToolStatus(p, status, output, input, error) ==
    [p EXCEPT !.status = status,
              !.input  = IF Truthy(input)  THEN input  ELSE @,
              !.output = IF Truthy(output) THEN output ELSE @,
              !.error  = IF Truthy(error)  THEN error  ELSE @]

\* createSubagentPanel / addSubagentToMessage: a new panel at the tail;
\* dataset.subagentId = id, dataset.status = status.
addSubagentToMessage(msg, d) ==
    [msg EXCEPT !.parts = Append(@,
        [NewPart("subagent") EXCEPT !.toolId = d.id, !.tool = "task",
                                     !.status = d.status, !.output = d.output,
                                     !.error = d.error])]

\* updateSubagentPanel(panelEl, data): dataset.status and the content are
\* re-rendered from data.
updateSubagentPanel(p, d) ==
    [p EXCEPT !.status = d.status, !.output = d.output, !.error = d.error]

\* addQuestionnaireToMessage(messageEl, data, onSubmit): an interactive form
\* at the tail; req records the id of the event that created it (held by the
\* onSubmit closure's data), NULL for a form created without one.
addQuestionnaireToMessage(msg, req) ==
    [msg EXCEPT !.parts = Append(@, [NewPart("question") EXCEPT !.req = req])]

\* addAnsweredQuestionToMessage(messageEl, data): read-only answered question.
addAnsweredQuestionToMessage(msg, output) ==
    [msg EXCEPT !.parts = Append(@, [NewPart("answered") EXCEPT !.output = output])]

\* addStreamingIndicator / removeStreamingIndicator
addStreamingIndicator(msg)    == [msg EXCEPT !.indicator = TRUE]
removeStreamingIndicator(msg) == [msg EXCEPT !.indicator = FALSE]

\* addMessageFooter(messageEl, data): only removes the streaming indicator.
addMessageFooter(msg) == removeStreamingIndicator(msg)

\* ------------------------------------------------- wire events (events.js)
\* The JSON payload of one SSE frame, flattened: type; properties.part.type,
\* .id, .tool, .text; properties.part.state.{status,input,output,error,title};
\* properties.delta; the enhancement flag _is_subagent; properties.info.role
\* and .finish; properties.id of a question.asked.
Ev0 == [type |-> "server.heartbeat", ptype |-> NULL, delta |-> EmptyText,
        text |-> EmptyText, id |-> NULL, tool |-> NULL, status |-> NULL,
        input |-> NULL, output |-> NULL, error |-> NULL, title |-> NULL,
        isSub |-> FALSE, role |-> NULL, finish |-> NULL]

TextDelta(d)   == [Ev0 EXCEPT !.type = "message.part.updated", !.ptype = "text", !.delta = d]
TextFull(t)    == [Ev0 EXCEPT !.type = "message.part.updated", !.ptype = "text", !.text = t]
Reasoning(t)   == [Ev0 EXCEPT !.type = "message.part.updated", !.ptype = "reasoning", !.text = t]
ToolEv(id, tool, status, input, output, title) ==
    [Ev0 EXCEPT !.type = "message.part.updated", !.ptype = "tool", !.id = id,
                !.tool = tool, !.status = status, !.input = input,
                !.output = output, !.title = title]
StepEv(pt)     == [Ev0 EXCEPT !.type = "message.part.updated", !.ptype = pt]
MsgUpdated(role, finish) == [Ev0 EXCEPT !.type = "message.updated", !.role = role, !.finish = finish]
QuestionAsked(id) == [Ev0 EXCEPT !.type = "question.asked", !.id = id]
Plain(type)    == [Ev0 EXCEPT !.type = type]

\* The data object handed to App.handleStreamEvent.  An empty string that the
\* decoder substitutes for a missing output ('' is falsy like null) is NULL.
DataOf(ev) == [id |-> ev.id, tool |-> ev.tool, status |-> ev.status,
               input |-> ev.input, output |-> ev.output, title |-> ev.title,
               error |-> ev.error, delta |-> ev.delta, text |-> ev.text,
               finish |-> ev.finish]

NoEmit == [etype |-> "none", d |-> DataOf(Ev0)]
Emit(etype, ev) == [etype |-> etype, d |-> DataOf(ev)]

IsLifecycle(status) == status \in {"pending", "running", "completed", "failed"}

\* EventStream.handleToolUpdate
handleToolUpdate(ev) ==
    IF IsLifecycle(ev.status) THEN Emit("tool_" \o ev.status, ev)
    ELSE Emit("tool_update", ev)

\* EventStream.handleSubagentEvent: the emitted event ...
handleSubagentEvent(ev) ==
    IF IsLifecycle(ev.status) THEN Emit("subagent_" \o ev.status, [ev EXCEPT !.tool = "task"])
    ELSE Emit("subagent_update", [ev EXCEPT !.tool = "task"])

\* the map's update without the delete of a completed or failed sub-agent
TrackSubagentNeverDeletes(subs, ev) == subs \cup {ev.id}

\* ... and its effect on EventStream.activeSubagents (the ids in the map).
TrackSubagent(subs, ev) ==
    IF ev.status \in {"completed", "failed"} THEN subs \ {ev.id} ELSE subs \cup {ev.id}

IsSubagentPart(ev) == ev.isSub \/ ev.tool = "task"

\* EventStream.handlePartUpdated
handlePartUpdated(ev) ==
    CASE ev.ptype = "text"        -> IF ev.delta # EmptyText THEN Emit("text_delta", ev) ELSE NoEmit
      [] ev.ptype = "reasoning"   -> Emit("reasoning", ev)
      [] ev.ptype = "tool"        -> IF IsSubagentPart(ev) THEN handleSubagentEvent(ev)
                                     ELSE handleToolUpdate(ev)
      [] ev.ptype = "step-start"  -> Emit("step_start", ev)
      [] ev.ptype = "step-finish" -> Emit("step_finish", ev)
      [] OTHER                    -> NoEmit

\* handleMessageUpdated that takes every finish for a completion
handleMessageUpdatedAnyFinish(ev) ==
    IF ev.role # "assistant" THEN NoEmit
    ELSE IF ev.finish = NULL THEN NoEmit
    ELSE Emit("message_complete", ev)

\* EventStream.handleMessageUpdated
handleMessageUpdated(ev) ==
    IF ev.role # "assistant" THEN NoEmit
    ELSE IF ev.finish = NULL THEN NoEmit
    ELSE IF ev.finish = "tool-calls" THEN Emit("message_tool_calls", ev)
    ELSE Emit("message_complete", ev)

\* handleEvent that forwards a heartbeat and a type it does not know as a
\* session error
handleEventForwardsAll(ev) ==
    CASE ev.type = "server.connected"     -> Emit("server_connected", ev)
      [] ev.type = "message.part.updated" -> handlePartUpdated(ev)
      [] ev.type = "message.updated"      -> handleMessageUpdated(ev)
      [] ev.type = "file.edited"          -> Emit("file_edited", ev)
      [] ev.type = "session.status"       -> Emit("session_status", ev)
      [] ev.type = "session.idle"         -> Emit("session_idle", ev)
      [] ev.type = "connection.error"     -> Emit("error", ev)
      [] ev.type = "question.asked"       -> Emit("question_asked", ev)
      [] OTHER                            -> Emit("session_error", ev)

\* EventStream.handleEvent: the App event emitted for one decoded wire event.
handleEvent(ev) ==
    CASE ev.type = "server.connected"     -> Emit("server_connected", ev)
      [] ev.type = "server.heartbeat"     -> NoEmit
      [] ev.type = "message.part.updated" -> handlePartUpdated(ev)
      [] ev.type = "message.updated"      -> handleMessageUpdated(ev)
      [] ev.type = "file.edited"          -> Emit("file_edited", ev)
      [] ev.type = "session.status"       -> Emit("session_status", ev)
      [] ev.type = "session.error"        -> Emit("session_error", ev)
      [] ev.type = "session.idle"         -> Emit("session_idle", ev)
      [] ev.type = "connection.error"     -> Emit("error", ev)
      [] ev.type = "question.asked"       -> Emit("question_asked", ev)
      [] OTHER                            -> NoEmit

\* The EventStream object: es is its EventSource ("open", or "closed" once
\* disconnect() has closed and dropped it), connected its flag, subs the ids in
\* its activeSubagents, sess the session that was current when it was opened.
NoStream == [es |-> "none", connected |-> FALSE, subs |-> {}, sess |-> NULL]

\* EventStream.disconnect
disconnect(st) ==
    IF st.es = "open" THEN [NoStream EXCEPT !.es = "closed"]
    ELSE st

OpenStreams(ss) == {i \in 1..MaxStreams : ss[i].es = "open"}

\* ------------------------------------------------------ App state (app.js)
\* The App object and the DOM it owns, as one record, so that a handler is a
\* function from state to state and handlers compose like the calls they model.
St == [currentView |-> currentView, currentProject |-> currentProject, currentSession |-> currentSession,
       isFirstMessageInSession |-> isFirstMessageInSession,
       isStreaming |-> isStreaming, isQuestionPending |-> isQuestionPending,
       pendingQuestionRequestId |-> pendingQuestionRequestId,
       currentMessageEl |-> currentMessageEl,
       currentMessageText |-> currentMessageText,
       activeSubagents |-> activeSubagents, eventStream |-> eventStream,
       stopBtn |-> stopBtn, chatContainer |-> chatContainer, streams |-> streams,
       sessions |-> sessions, personalRules |-> personalRules]

Put(s) ==
    /\ currentView' = s.currentView
    /\ currentProject' = s.currentProject
    /\ currentSession' = s.currentSession
    /\ isFirstMessageInSession' = s.isFirstMessageInSession
    /\ isStreaming' = s.isStreaming
    /\ isQuestionPending' = s.isQuestionPending
    /\ pendingQuestionRequestId' = s.pendingQuestionRequestId
    /\ currentMessageEl' = s.currentMessageEl
    /\ currentMessageText' = s.currentMessageText
    /\ activeSubagents' = s.activeSubagents
    /\ eventStream' = s.eventStream
    /\ stopBtn' = s.stopBtn
    /\ chatContainer' = s.chatContainer
    /\ streams' = s.streams
    /\ sessions' = s.sessions
    /\ personalRules' = s.personalRules

\* A value of App.activeSubagents: no entry, or a reference to a panel element
\* (message m, child p); m = 0 is a panel whose message was removed from the
\* document by clearChat.
NoPanel      == [has |-> FALSE, m |-> 0, p |-> 0]
PanelAt(m,p) == [has |-> TRUE, m |-> m, p |-> p]

\* what happens to element references when the container's innerHTML is reset
Detach(ref) == IF ref.has THEN PanelAt(0, 0) ELSE ref

\* apply f to the current message element, if there is one
OnCurrent(s, f(_)) ==
    IF s.currentMessageEl = 0 THEN s
    ELSE [s EXCEPT !.chatContainer[s.currentMessageEl] = f(@)]

\* App.clearChat
clearChat(s) ==
    [s EXCEPT !.chatContainer = << >>,
              !.currentMessageEl = 0,
              !.currentMessageText = EmptyText,
              !.activeSubagents = [id \in SubIds |-> Detach(@[id])]]

\* App.setInputQuestionMode
setInputQuestionMode(s, active) == [s EXCEPT !.isQuestionPending = active]

\* App.startAssistantMessage
startAssistantMessage(s) ==
    [s EXCEPT !.chatContainer = Append(@, addStreamingIndicator(createAssistantMessage)),
              !.currentMessageEl = Len(s.chatContainer) + 1,
              !.currentMessageText = EmptyText]

\* new EventStream(...) followed by connect(): the new object is streams[1],
\* the objects created before it move up by one (the oldest is forgotten)
NewStream(ss, sess) ==
    [i \in 1..MaxStreams |->
        IF i = 1 THEN [es |-> "open", connected |-> FALSE, subs |-> {}, sess |-> sess]
        ELSE ss[i - 1]]

\* App.connectEventStream without the disconnect of the previous stream
connectEventStreamNoDisconnect(s) ==
    IF s.currentProject = NULL THEN s
    ELSE [s EXCEPT !.streams = NewStream(s.streams, s.currentSession),
                   !.eventStream = 1]

\* App.connectEventStream (with EventStream.connect)
connectEventStream(s) ==
    IF s.currentProject = NULL THEN s
    ELSE LET ss == IF s.eventStream # 0
                   THEN [s.streams EXCEPT ![s.eventStream] = disconnect(@)]
                   ELSE s.streams
         IN [s EXCEPT !.streams = NewStream(ss, s.currentSession),
                      !.eventStream = 1]

\* App.stopStreaming
stopStreaming(s) ==
    [s EXCEPT !.isStreaming = FALSE,
              !.stopBtn = "hidden",
              !.streams = IF s.eventStream # 0
                          THEN [@ EXCEPT ![s.eventStream] = disconnect(@)]
                          ELSE @,
              !.eventStream = 0]

\* cleanupAfterMessage that leaves the map as it is
cleanupAfterMessageKeepsMap(s) == s

\* App.cleanupAfterMessage
cleanupAfterMessage(s) == [s EXCEPT !.activeSubagents = [id \in SubIds |-> NoPanel]]

\* first element of the document that carries the given sub-agent panel id
\* (document.getElementById): <<message, child>>, or <<0, 0>>
FirstPanelInDocument(chat, id) ==
    LET IsIt(p) == p.kind = "subagent" /\ p.toolId = id
        Has(m)  == IndexOf(chat[m].parts, IsIt) # 0
    IN IF \E m \in 1..Len(chat) : Has(m)
       THEN LET m == CHOOSE k \in 1..Len(chat) : Has(k) /\ \A j \in 1..(k-1) : ~Has(j)
            IN << m, IndexOf(chat[m].parts, IsIt) >>
       ELSE << 0, 0 >>

\* updateSubagentPanel(panel, data) as App calls it: dataset.status changes on
\* the referenced panel, the content is re-rendered in the element found by
\* document.getElementById(panel.id + '-content').
UpdatePanel(s, ref, d) ==
    LET c1 == IF ref.m # 0
              THEN [s.chatContainer EXCEPT ![ref.m].parts[ref.p].status = d.status]
              ELSE s.chatContainer
        f  == FirstPanelInDocument(c1, d.id)
        c2 == IF f[1] # 0
              THEN [c1 EXCEPT ![f[1]].parts[f[2]].output = d.output,
                              ![f[1]].parts[f[2]].error = d.error]
              ELSE c1
    IN [s EXCEPT !.chatContainer = c2]

\* App.handleSubagentStart
handleSubagentStart(s, d) ==
    IF s.currentMessageEl = 0 THEN s
    ELSE LET panel == s.activeSubagents[d.id]
         IN IF panel.has THEN UpdatePanel(s, panel, d)
            ELSE LET m  == s.currentMessageEl
                     s1 == OnCurrent(s, LAMBDA msg : addSubagentToMessage(msg, d))
                 IN [s1 EXCEPT !.activeSubagents[d.id] =
                                  PanelAt(m, Len(s1.chatContainer[m].parts))]

\* handleSubagentComplete that keeps the entry of the map
handleSubagentCompleteKeepsEntry(s, d) ==
    LET panel == s.activeSubagents[d.id]
    IN IF panel.has THEN UpdatePanel(s, panel, d)
       ELSE OnCurrent(s, LAMBDA msg : addSubagentToMessage(msg, d))

\* App.handleSubagentComplete and App.handleSubagentFailed (same state change)
handleSubagentComplete(s, d) ==
    LET panel == s.activeSubagents[d.id]
    IN IF panel.has
       THEN [UpdatePanel(s, panel, d) EXCEPT !.activeSubagents[d.id] = NoPanel]
       ELSE OnCurrent(s, LAMBDA msg : addSubagentToMessage(msg, d))

\* App.handleSubagentUpdate
handleSubagentUpdate(s, d) ==
    LET panel == s.activeSubagents[d.id]
    IN IF panel.has THEN UpdatePanel(s, panel, d) ELSE s

\* App.handleToolEvent
handleToolEvent(s, d) ==
    LET m == s.currentMessageEl
        IsIt(p) == p.kind = "tool" /\ d.id # NULL /\ p.toolId = d.id
        i == IF m = 0 THEN 0 ELSE IndexOf(s.chatContainer[m].parts, IsIt)
    IN IF d.tool = "question" /\ d.input = QuestionsInput
       THEN IF i # 0 THEN s
            ELSE OnCurrent(s, LAMBDA msg : addQuestionnaireToMessage(msg, NULL))
       ELSE IF i # 0
            THEN [s EXCEPT !.chatContainer[m].parts[i] =
                     updateToolStatus(@, d.status, d.output, d.input, d.error)]
            ELSE OnCurrent(s, LAMBDA msg :
                     LET a == addToolResult(msg, d)
                     IN [a EXCEPT !.parts[Len(a.parts)].toolId = d.id])

\* App.handleStreamEvent
handleStreamEvent(s, etype, d) ==
    CASE etype = "text_delta" ->
            LET t == s.currentMessageText \o d.delta
            IN OnCurrent([s EXCEPT !.currentMessageText = t],
                         LAMBDA msg : appendTextToMessage(msg, t))
      [] etype = "reasoning" ->
            OnCurrent(s, LAMBDA msg : addThinkingSection(msg, d.text))
      [] etype \in {"tool_pending", "tool_running", "tool_completed", "tool_failed"} ->
            handleToolEvent(s, d)
      [] etype \in {"subagent_pending", "subagent_running"} ->
            handleSubagentStart(s, d)
      [] etype \in {"subagent_completed", "subagent_failed"} ->
            handleSubagentComplete(s, d)
      [] etype = "subagent_update" ->
            handleSubagentUpdate(s, d)
      [] etype = "message_complete" ->
            stopStreaming(cleanupAfterMessage(OnCurrent(s, addMessageFooter)))
      [] etype = "question_asked" ->
            IF s.currentMessageEl = 0 THEN s
            ELSE LET s1 == [s EXCEPT !.pendingQuestionRequestId = d.id]
                     s2 == OnCurrent(s1, LAMBDA msg :
                              addQuestionnaireToMessage(removeStreamingIndicator(msg), d.id))
                 IN setInputQuestionMode(
                        [s2 EXCEPT !.isStreaming = FALSE, !.stopBtn = "hidden"], TRUE)
      [] etype = "session_error" ->
            stopStreaming(cleanupAfterMessage(s))
      [] etype = "session_idle" ->
            cleanupAfterMessage(s)
      [] OTHER -> s

\* the notification (createToast) App.handleStreamEvent raises for an event
StreamToast(etype) ==
    IF etype \in {"session_error", "subagent_failed"} THEN "error" ELSE NULL

\* -------------------------------------------- history and POST responses
\* A message of GET /session/{id}/message or of the POST response: its role
\* and its parts; a part is a wire part (the record of a message.part.updated
\* event without delta).
UserText == << "u" >>

HistMsg(role, parts) == [role |-> role, parts |-> parts]

\* text of the parts of type text, concatenated in order
RECURSIVE TextOf(_)
TextOf(parts) ==
    IF parts = << >> THEN EmptyText
    ELSE (IF Head(parts).ptype = "text" THEN Head(parts).text ELSE EmptyText)
         \o TextOf(Tail(parts))

\* text of the last part of type reasoning
RECURSIVE ReasoningOf(_)
ReasoningOf(parts) ==
    IF parts = << >> THEN EmptyText
    ELSE LET last == parts[Len(parts)]
         IN IF last.ptype = "reasoning" THEN last.text
            ELSE ReasoningOf(SubSeq(parts, 1, Len(parts) - 1))

\* toolData built from a part of type tool: status defaults to completed
ToolDataOf(part) ==
    [DataOf(part) EXCEPT !.status = IF Truthy(part.status) THEN part.status ELSE "completed"]

IsToolPart(part)     == part.ptype = "tool"
IsTaskPart(part)     == IsToolPart(part) /\ part.tool = "task"
IsQuestionPart(part) == IsToolPart(part) /\ part.tool # "task"
                        /\ part.tool = "question" /\ part.input = QuestionsInput
IsPlainTool(part)    == IsToolPart(part) /\ ~IsTaskPart(part) /\ ~IsQuestionPart(part)
IsAnsweredPart(part) == part.status = "completed" /\ Truthy(part.output)

\* fold f over the parts that satisfy P, in order
AddEach(msg, parts, P(_), f(_, _)) ==
    LET F[i \in 0..Len(parts)] ==
            IF i = 0 THEN msg
            ELSE IF P(parts[i]) THEN f(F[i - 1], parts[i]) ELSE F[i - 1]
    IN F[Len(parts)]

\* the assistant element renderHistoricalMessage builds: thinking, sub-agent
\* panels, questionnaires, tool results, text
HistoricalAssistantEl(parts) ==
    LET m0 == addThinkingSection(createAssistantMessage, ReasoningOf(parts))
        m1 == AddEach(m0, parts, IsTaskPart,
                      LAMBDA m, pt : [addSubagentToMessage(m, ToolDataOf(pt))
                                        EXCEPT !.parts[Len(m.parts) + 1].toolId = NULL])
        m2 == AddEach(m1, parts, IsQuestionPart,
                      LAMBDA m, pt : IF IsAnsweredPart(pt)
                                     THEN addAnsweredQuestionToMessage(m, pt.output)
                                     ELSE addQuestionnaireToMessage(m, NULL))
        m3 == AddEach(m2, parts, IsPlainTool,
                      LAMBDA m, pt : addToolResult(m, ToolDataOf(pt)))
    IN IF TextOf(parts) # EmptyText THEN appendTextToMessage(m3, TextOf(parts)) ELSE m3

HasOpenQuestion(parts) ==
    \E i \in 1..Len(parts) : IsQuestionPart(parts[i]) /\ ~IsAnsweredPart(parts[i])

\* App.renderHistoricalMessage
renderHistoricalMessage(s, msg, isLast) ==
    IF msg.role = "user"
    THEN [s EXCEPT !.chatContainer = Append(@, createUserMessage(TextOf(msg.parts)))]
    ELSE IF msg.role = "assistant"
    THEN LET s1 == [s EXCEPT !.chatContainer = Append(@, HistoricalAssistantEl(msg.parts))]
         IN IF HasOpenQuestion(msg.parts) /\ isLast /\ s.pendingQuestionRequestId # NULL
            THEN connectEventStream(setInputQuestionMode(s1, TRUE))
            ELSE s1
    ELSE s

\* the forEach at the end of loadSessionMessages
RECURSIVE RenderAll(_, _, _)
RenderAll(s, msgs, i) ==
    IF i > Len(msgs) THEN s
    ELSE RenderAll(renderHistoricalMessage(s, msgs[i], i = Len(msgs)), msgs, i + 1)

\* App.processMessageResponse: thinking, tool results, text, and the footer
\* when the response carries info
processMessageResponse(s, parts, info) ==
    IF parts = << >> THEN s
    ELSE OnCurrent(s, LAMBDA msg :
            LET m0 == addThinkingSection(msg, ReasoningOf(parts))
                m1 == AddEach(m0, parts, IsToolPart,
                              LAMBDA m, pt : addToolResult(m, ToolDataOf(pt)))
                m2 == IF TextOf(parts) # EmptyText
                      THEN appendTextToMessage(m1, TextOf(parts)) ELSE m1
            IN IF info THEN addMessageFooter(m2) ELSE m2)

\* ------------------------------------------------------------ async calls
\* A call of an async method suspended at an await: op is the method the user
\* or a closure invoked, pc the await it is suspended at, sid the session id
\* (or project) it works on, msgs the message list it fetched, req the request
\* id and answers the answers array it passed to the reply endpoint.
Task(op, pc, sid) == [op |-> op, pc |-> pc, sid |-> sid, text |-> EmptyText,
                      files |-> 0, req |-> NULL, answers |-> << >>]

Spawn(t)         == tasks' = tasks (+) SetToBag({t})
Finish(t)        == tasks' = tasks (-) SetToBag({t})
Become(t, t2)    == tasks' = (tasks (-) SetToBag({t})) (+) SetToBag({t2})
Goto(t, pc)      == Become(t, [t EXCEPT !.pc = pc])
At(t, pc)        == BagIn(t, tasks) /\ t.pc = pc
CanSpawn         == BagCardinality(tasks) < MaxTasks
\* the oldest EventStream object can be forgotten: it is closed
HasFreeSlot      == streams[MaxStreams].es # "open"

\* sizes the model keeps the DOM within
Bounded(s) ==
    /\ Len(s.chatContainer) <= MaxChat
    /\ \A m \in 1..Len(s.chatContainer) : Len(s.chatContainer[m].parts) <= MaxParts
    /\ Len(s.currentMessageText) <= MaxText

\* abortMessage returns before its request when nothing is selected
AbortReturnsEarly(s) == s.currentSession = NULL \/ s.currentProject = NULL

\* ---- App.switchView (navigation buttons)
NavProjects ==
    /\ Put([St EXCEPT !.currentView = "projects"])
    /\ UNCHANGED << tasks, recorded >>

NavChat ==
    /\ Put(IF currentProject # NULL THEN [St EXCEPT !.currentView = "chat"] ELSE St)
    /\ UNCHANGED << tasks, recorded >>

\* ---- App.abortMessage (stop button)
AbortCall ==
    /\ CanSpawn
    /\ IF AbortReturnsEarly(St) THEN UNCHANGED tasks
       ELSE Spawn(Task("abortMessage", "abortSession", currentSession))
    /\ Put(St)
    /\ UNCHANGED recorded

AbortMessage ==
    /\ currentView = "chat"
    /\ stopBtn = "shown"
    /\ AbortCall

\* the first statements of handleSessionChange's try block: the session is
\* selected and the chat cleared, then loadSessionMessages is awaited
BeginLoad(s, sid) ==
    clearChat([s EXCEPT !.currentSession = sid, !.isFirstMessageInSession = FALSE])

\* the abort request resolves or throws: the finally block runs stopStreaming;
\* a caller that awaited abortMessage goes on to its next await
AbortSettles(t) ==
    /\ At(t, "abortSession")
    /\ LET s1 == stopStreaming(St)
       IN CASE t.op = "abortMessage" ->
                 /\ Put(s1)
                 /\ Finish(t)
            [] t.op = "handleSessionChange" ->
                 /\ Put(BeginLoad(s1, t.sid))
                 /\ IF s1.currentProject = NULL THEN Finish(t)   \* reading .path throws
                    ELSE Goto(t, "loadSessionMessages")
            [] t.op = "selectProject" ->
                 /\ Put(s1)
                 /\ Goto(t, "selectProject")
            [] t.op = "createNewSession" ->
                 /\ Put(s1)
                 /\ IF s1.currentProject = NULL THEN Finish(t)   \* reading .path throws
                    ELSE Goto(t, "createSession")
    /\ UNCHANGED recorded

\* ---- App.handleSessionChange (session dropdown)
HandleSessionChangeCall(sid) ==
    /\ currentView = "chat"
    /\ sid \in sessions
    /\ currentProject # NULL
    /\ IF isStreaming /\ ~AbortReturnsEarly(St)
       THEN /\ Spawn(Task("handleSessionChange", "abortSession", sid))
            /\ Put(St)
       ELSE /\ Spawn(Task("handleSessionChange", "loadSessionMessages", sid))
            /\ Put(BeginLoad(St, sid))
    /\ UNCHANGED recorded

HandleSessionChange(sid) ==
    /\ CanSpawn
    /\ HandleSessionChangeCall(sid)

\* ---- App.loadSessionMessages, on behalf of handleSessionChange or
\* loadChatHistory.  Its two requests (getMessages, listPendingQuestions) are
\* one suspension: nothing is read or written between them.
UserMsg == HistMsg("user", << TextFull(UserText) >>)
HistoryText     == << UserMsg, HistMsg("assistant", << TextFull(<< "a" >>) >>) >>
HistoryQuestion == << UserMsg, HistMsg("assistant",
                        << ToolEv("t1", "question", "running", QuestionsInput, NULL, NULL) >>) >>
Histories == { << >>, HistoryText, HistoryQuestion }

\* getMessages resolved with h; listPendingQuestions resolved with the pending
\* question q of the session (NULL: none) or threw (NULL as well)
LoadSettles(t, h, q) ==
    /\ At(t, "loadSessionMessages")
    /\ HasFreeSlot
    /\ LET s1 == [St EXCEPT !.pendingQuestionRequestId = q]
           s2 == RenderAll(s1, h, 1)
       IN /\ Bounded(s2)
          /\ Put(s2)
    /\ Finish(t)
    /\ UNCHANGED recorded

\* getMessages threw: the caller's catch block shows a toast
LoadThrows(t) ==
    /\ At(t, "loadSessionMessages")
    /\ Finish(t)
    /\ Put(St)
    /\ UNCHANGED recorded

\* ---- App.selectProject (project card) with App.loadChatHistory
SelectProject(p) ==
    /\ CanSpawn
    /\ IF isStreaming /\ ~AbortReturnsEarly(St)
       THEN Spawn(Task("selectProject", "abortSession", p))
       ELSE Spawn(Task("selectProject", "selectProject", p))
    /\ Put(St)
    /\ UNCHANGED recorded

\* api.selectProject resolved: currentProject is set, loadModels awaited
SelectProjectResolves(t) ==
    /\ At(t, "selectProject")
    /\ Put([St EXCEPT !.currentProject = t.sid, !.currentView = "chat"])
    /\ Goto(t, "loadModels")
    /\ UNCHANGED recorded

SelectProjectThrows(t) ==
    /\ At(t, "selectProject")
    /\ Put(St)
    /\ Finish(t)
    /\ UNCHANGED recorded

\* loadModels settled: loadChatHistory clears the chat and awaits getSessions
LoadModelsSettles(t) ==
    /\ At(t, "loadModels")
    /\ Put(clearChat(St))
    /\ Goto(t, "getSessions")
    /\ UNCHANGED recorded

\* getSessions resolved, newest session first (NULL: no session)
GetSessionsResolves(t, first) ==
    /\ At(t, "getSessions")
    /\ t.op = "selectProject"
    /\ IF first # NULL
       THEN /\ Put([St EXCEPT !.sessions = ServerSessions,
                              !.currentSession = first,
                              !.isFirstMessageInSession = FALSE])
            /\ Become(t, [t EXCEPT !.pc = "loadSessionMessages", !.sid = first])
       ELSE /\ Put([St EXCEPT !.sessions = {},
                              !.currentSession = NULL,
                              !.isFirstMessageInSession = TRUE])
            /\ Finish(t)
    /\ UNCHANGED recorded

GetSessionsThrows(t) ==
    /\ At(t, "getSessions")
    /\ Put(St)
    /\ Finish(t)
    /\ UNCHANGED recorded

\* ---- App.createNewSession (new-session button)
CreateNewSession ==
    /\ currentView = "chat"
    /\ CanSpawn
    /\ currentProject # NULL
    /\ IF isStreaming /\ ~AbortReturnsEarly(St)
       THEN Spawn(Task("createNewSession", "abortSession", NULL))
       ELSE Spawn(Task("createNewSession", "createSession", NULL))
    /\ Put(St)
    /\ UNCHANGED recorded

CreateSessionSettles(t, ok) ==
    /\ At(t, "createSession")
    /\ t.op = "createNewSession"
    /\ IF ok
       THEN /\ Put(clearChat([St EXCEPT !.currentSession = NewSessionId,
                                        !.isFirstMessageInSession = TRUE]))
            /\ IF currentProject = NULL THEN Finish(t)           \* reading .path throws
               ELSE Goto(t, "getSessions")
       ELSE /\ Put(St)
            /\ Finish(t)
    /\ UNCHANGED recorded

SessionsRefreshed(t) ==
    /\ At(t, "getSessions")
    /\ t.op = "createNewSession"
    /\ Put([St EXCEPT !.sessions = ServerSessions \cup {NewSessionId}])
    /\ Finish(t)
    /\ UNCHANGED recorded

\* ---- App.deleteProject (project card); deleteProject and loadProjects are
\* one suspension
DeleteProject(p) ==
    /\ currentView = "projects"
    /\ CanSpawn
    /\ Spawn(Task("deleteProject", "deleteProject", p))
    /\ Put(St)
    /\ UNCHANGED recorded

DeleteProjectResolves(t) ==
    /\ At(t, "deleteProject")
    /\ IF currentProject = t.sid
       THEN Put([St EXCEPT !.currentProject = NULL, !.currentView = "projects"])
       ELSE Put(St)
    /\ Finish(t)
    /\ UNCHANGED recorded

DeleteProjectThrows(t) ==
    /\ At(t, "deleteProject")
    /\ Put(St)
    /\ Finish(t)
    /\ UNCHANGED recorded

\* ---- App.sendMessage
\* the text part of the POST body is the personal rules followed by the text
\* (and not the text alone): there is a text, the flag is set and the trimmed
\* rules are not empty
PrependsRules(s, text) ==
    text # EmptyText /\ s.isFirstMessageInSession /\ s.personalRules # EmptyText

\* from the personal-rules check to connectEventStream: the preamble, the user
\* message, the assistant message, the streaming state, the connection
SendBody(s, text) ==
    LET s1 == IF PrependsRules(s, text)
              THEN [s EXCEPT !.isFirstMessageInSession = FALSE] ELSE s
        s2 == [s1 EXCEPT !.chatContainer = Append(@, createUserMessage(text))]
        s3 == startAssistantMessage(s2)
    IN connectEventStream([s3 EXCEPT !.isStreaming = TRUE, !.stopBtn = "shown"])

\* the call up to its first await (or to its return); text and files are the
\* message text and the number of attachments it finds.  toast is the
\* notification (createToast) raised on the way, NULL when there is none.
SendStart(s, text, files) ==
    IF s.currentProject = NULL THEN [s |-> s, pc |-> "return", toast |-> "warning"]
    ELSE LET s1 == IF s.isQuestionPending THEN setInputQuestionMode(s, FALSE) ELSE s
         IN IF text = EmptyText /\ files = 0 THEN [s |-> s1, pc |-> "return", toast |-> NULL]
            ELSE IF s1.isStreaming THEN [s |-> s1, pc |-> "return", toast |-> NULL]
            ELSE IF s1.currentSession = NULL
                 THEN [s |-> s1, pc |-> "createSession", toast |-> NULL]
            ELSE IF files > 0 THEN [s |-> s1, pc |-> "readFile", toast |-> NULL]
            ELSE [s |-> SendBody(s1, text), pc |-> "postMessage", toast |-> NULL]

SendTask(pc, text, files) ==
    [Task("sendMessage", pc, NULL) EXCEPT !.text = text, !.files = files]

SendCall(s, text, files) ==
    LET r == SendStart(s, text, files)
    IN /\ Bounded(r.s)
       /\ Put(r.s)
       /\ IF r.pc = "return" THEN UNCHANGED tasks
          ELSE Spawn(SendTask(r.pc, text, files))
       /\ recorded' = IF r.pc = "postMessage" THEN << >> ELSE recorded

\* send button or Enter key
SendMessage(text, files) ==
    /\ currentView = "chat"
    /\ CanSpawn
    /\ HasFreeSlot
    /\ SendCall(St, text, files)

\* createSession of the lazy session creation resolved or threw
SendCreateSettles(t, ok) ==
    /\ At(t, "createSession")
    /\ t.op = "sendMessage"
    /\ HasFreeSlot
    /\ IF ~ok THEN /\ Put(St) /\ Finish(t) /\ UNCHANGED recorded
       ELSE LET s1 == [St EXCEPT !.currentSession = NewSessionId,
                                 !.isFirstMessageInSession = TRUE]
            IN IF t.files > 0
               THEN /\ Put(s1) /\ Goto(t, "readFile") /\ UNCHANGED recorded
               ELSE /\ Bounded(SendBody(s1, t.text))
                    /\ Put(SendBody(s1, t.text))
                    /\ Goto(t, "postMessage")
                    /\ recorded' = << >>

\* the attachments were read
SendReadResolves(t) ==
    /\ At(t, "readFile")
    /\ HasFreeSlot
    /\ Bounded(SendBody(St, t.text))
    /\ Put(SendBody(St, t.text))
    /\ Goto(t, "postMessage")
    /\ recorded' = << >>

SyncResponses == { << >>, << TextFull(<< "a" >>) >> }

\* The 200 ms delay and the POST are one suspension.  The POST resolved with
\* a response that has these parts, with or without info.
SendPostResolves(t, parts, info) ==
    /\ At(t, "postMessage")
    /\ LET s1 == IF parts # << >>
                 THEN stopStreaming(processMessageResponse(St, parts, info)) ELSE St
       IN /\ Bounded(s1)
          /\ Put(s1)
    /\ Finish(t)
    /\ UNCHANGED recorded

\* the notification of sendMessage's catch block: none when a 504 is ignored
PostThrowsToast(s, is504) == IF is504 /\ s.eventStream # 0 THEN NULL ELSE "error"

\* The POST threw (a POST issued when the project is null throws as well);
\* is504: the error text contains 504.
SendPostThrows(t, is504) ==
    /\ At(t, "postMessage")
    /\ IF is504 /\ eventStream # 0 THEN Put(St) ELSE Put(stopStreaming(St))
    /\ Finish(t)
    /\ UNCHANGED recorded

\* ---- the questionnaire form and App.submitQuestionnaire
\* A question of the question tool: header (NULL when it has none) and the
\* kind of its form control: "single" (radio buttons), "multiple"
\* (checkboxes) or "text" (textarea, the question has no options).
Headers       == {NULL, "h"}
QuestionKinds == {"single", "multiple", "text"}
Questions1    == [header : Headers, kind : QuestionKinds]
QuestionLists == { << q >> : q \in Questions1 } \cup
                 { << q, r >> : q \in Questions1, r \in Questions1 }

\* what the user put into the control of one question: the values of the
\* checked inputs in document order, or the trimmed text (none when empty)
InputsOf(q) ==
    CASE q.kind = "single"   -> { << >>, << "a" >>, << "b" >> }
      [] q.kind = "multiple" -> { << >>, << "a" >>, << "b" >>, << "a", "b" >> }
      [] q.kind = "text"     -> { << >>, << "t" >> }
FormInputs(questions) ==
    { inputs \in [1..Len(questions) -> UNION {InputsOf(q) : q \in Questions1}] :
        \A i \in 1..Len(questions) : inputs[i] \in InputsOf(questions[i]) }

\* q.header || `Question ${idx + 1}` (idx counts from 0, i from 1)
QuestionKey(questions, i) ==
    IF questions[i].header # NULL THEN questions[i].header
    ELSE "Question " \o ToString(i)

\* A value of the answers object: an array of strings (isArray) or a scalar,
\* items holding the one string, or nothing for undefined and null.
ArrayValue(items)  == [isArray |-> TRUE, items |-> items]
ScalarValue(items) == [isArray |-> FALSE, items |-> items]

\* the submit handler of createQuestionnaire: isValid, and the result object,
\* in which a later question with the same key overwrites an earlier one
IsValid(questions, inputs) == \A i \in 1..Len(questions) : inputs[i] # << >>
GatherAnswers(questions, inputs) ==
    LET keys == { QuestionKey(questions, i) : i \in 1..Len(questions) }
        last(k) == CHOOSE i \in 1..Len(questions) :
                      /\ QuestionKey(questions, i) = k
                      /\ \A j \in 1..Len(questions) :
                            QuestionKey(questions, j) = k => j <= i
    IN [k \in keys |->
           IF questions[last(k)].kind = "multiple"
           THEN ArrayValue(inputs[last(k)])
           ELSE ScalarValue(inputs[last(k)])]

\* formattedAnswers of App.submitQuestionnaire (questions is an array)
formatAnswers(questions, answers) ==
    [i \in 1..Len(questions) |->
        LET questionKey == QuestionKey(questions, i)
        IN IF questionKey \notin DOMAIN answers THEN << >>
           ELSE LET answer == answers[questionKey]
                IN IF answer.isArray THEN answer.items
                   ELSE IF answer.items # << >> THEN << answer.items[1] >>
                   ELSE << >>]

\* App.submitQuestionnaire(answers, questions) called in state s
SubmitQuestionnaireCall(s, answers, questions) ==
    LET s1 == setInputQuestionMode(s, FALSE)
    IN IF s1.pendingQuestionRequestId = NULL
       THEN SendCall(s1, UserText, 0)
       ELSE /\ Put(s1)
            /\ IF s1.currentProject = NULL THEN UNCHANGED tasks
               ELSE Spawn([Task("submitQuestionnaire", "replyQuestion", s1.currentSession)
                             EXCEPT !.req = s1.pendingQuestionRequestId,
                                    !.answers = formatAnswers(questions, answers)])
            /\ UNCHANGED recorded

\* the submit button of the questionnaire that is child p of message m, built
\* from questions and filled with inputs (an incomplete form only warns; a
\* complete one disables itself and calls onSubmit)
SubmitClick(m, p, questions, inputs) ==
    /\ currentView = "chat"
    /\ CanSpawn
    /\ HasFreeSlot
    /\ m \in 1..Len(chatContainer)
    /\ p \in 1..Len(chatContainer[m].parts)
    /\ chatContainer[m].parts[p].kind = "question"
    /\ ~chatContainer[m].parts[p].disabled
    /\ IsValid(questions, inputs)
    /\ SubmitQuestionnaireCall([St EXCEPT !.chatContainer[m].parts[p].disabled = TRUE],
                               GatherAnswers(questions, inputs), questions)

\* the questionnaire of the application model: one question, one choice
TheQuestions == << [header |-> "h", kind |-> "single"] >>
SubmitQuestionnaire(m, p) == SubmitClick(m, p, TheQuestions, << << "a" >> >>)

\* window.app.submitQuestionnaire called with any answers object: any subset
\* of the keys, any value under each (of a question it reads the header only)
HeaderLists  == { questions \in QuestionLists :
                    \A i \in 1..Len(questions) : questions[i].kind = "single" }
AnswerValues == { ArrayValue(x) : x \in { << >>, << "a", "b" >> } } \cup
                { ScalarValue(x) : x \in { << >>, << "a" >> } }
AnswerObjects(questions) ==
    LET keys == { QuestionKey(questions, i) : i \in 1..Len(questions) }
    IN UNION { [K -> AnswerValues] : K \in SUBSET keys }
SubmitQuestionnaireDirect(questions, answers) ==
    /\ CanSpawn
    /\ HasFreeSlot
    /\ SubmitQuestionnaireCall(St, answers, questions)

\* the reply settling with a new connection opened for the continuation
ReplySettlesReconnects(t, ok) ==
    /\ At(t, "replyQuestion")
    /\ HasFreeSlot
    /\ IF ok
       THEN Put(connectEventStream([St EXCEPT !.pendingQuestionRequestId = NULL,
                                              !.isStreaming = TRUE, !.stopBtn = "shown"]))
       ELSE Put([St EXCEPT !.pendingQuestionRequestId = NULL])
    /\ Finish(t)
    /\ UNCHANGED recorded

\* api.replyQuestion resolved (ok) or threw
ReplySettles(t, ok) ==
    /\ At(t, "replyQuestion")
    /\ IF ok
       THEN Put([St EXCEPT !.pendingQuestionRequestId = NULL,
                           !.isStreaming = TRUE, !.stopBtn = "shown"])
       ELSE Put([St EXCEPT !.pendingQuestionRequestId = NULL])
    /\ Finish(t)
    /\ UNCHANGED recorded

\* ---- the EventSource of stream i
\* onopen
StreamOpens(i) ==
    /\ streams[i].es = "open"
    /\ ~streams[i].connected
    /\ Put([St EXCEPT !.streams[i].connected = TRUE])
    /\ UNCHANGED << tasks, recorded >>

\* onerror (the EventSource stays and reconnects by itself); the 'error' event
\* it emits has no case in handleStreamEvent
StreamErrors(i) ==
    /\ streams[i].es = "open"
    /\ streams[i].connected
    /\ Put(handleStreamEvent([St EXCEPT !.streams[i].connected = FALSE], "error", DataOf(Ev0)))
    /\ UNCHANGED << tasks, recorded >>

\* onmessage with a frame whose JSON parses to ev: EventStream.handleEvent and
\* the callback into App.handleStreamEvent
OnMessage(s, i, ev) ==
    LET e  == handleEvent(ev)
        s1 == IF ev.type = "message.part.updated" /\ ev.ptype = "tool" /\ IsSubagentPart(ev)
              THEN [s EXCEPT !.streams[i].subs = TrackSubagent(@, ev)]
              ELSE s
    IN IF e.etype = "none" THEN s1 ELSE handleStreamEvent(s1, e.etype, e.d)

\* The data of one SSE frame, before JSON.parse: the JSON text of a wire
\* event, or a text that does not parse.
JsonFrame(ev) == [json |-> TRUE, ev |-> ev]
NotJson       == [json |-> FALSE, ev |-> Ev0]

\* onmessage that gives the connection up when JSON.parse throws
onmessageClosing(s, i, frame) ==
    IF frame.json THEN OnMessage(s, i, frame.ev)
    ELSE [s EXCEPT !.streams[i] = disconnect(@)]

\* eventSource.onmessage: JSON.parse in a try block whose catch only logs
onmessage(s, i, frame) ==
    IF frame.json THEN OnMessage(s, i, frame.ev)
    ELSE s

Receive(i, ev) ==
    /\ streams[i].es = "open"
    /\ Put(onmessage(St, i, JsonFrame(ev)))
    /\ UNCHANGED tasks

Deliver(i, ev) ==
    /\ Bounded(OnMessage(St, i, ev))
    /\ Receive(i, ev)
    /\ UNCHANGED recorded

\* the same, with the frame noted in the record of the message's events
DeliverRecorded(i, ev) ==
    /\ Len(recorded) < MaxRec
    /\ Receive(i, ev)
    /\ recorded' = Append(recorded, ev)

\* onmessage with a frame that is not JSON: JSON.parse throws, caught and logged
DeliverMalformed(i) ==
    /\ streams[i].es = "open"
    /\ Put(onmessage(St, i, NotJson))
    /\ UNCHANGED << tasks, recorded >>

\* the same, with the frame noted in the record of the message's events (it
\* is no wire event: its type is none of the protocol)
MalformedEv == [Ev0 EXCEPT !.type = "(not json)"]
DeliverMalformedRecorded(i) ==
    /\ Len(recorded) < MaxRec
    /\ streams[i].es = "open"
    /\ Put(onmessage(St, i, NotJson))
    /\ UNCHANGED tasks
    /\ recorded' = Append(recorded, MalformedEv)

\* ------------------------------------------------------------------- Spec
\* The state after construction and loadInitialData: the project the server
\* reports as current (or none), nothing else selected, an empty chat.
InitApp ==
    /\ currentView = "projects"
    /\ currentProject \in Projects \cup {NULL}
    /\ currentSession = NULL
    /\ isFirstMessageInSession = TRUE
    /\ isStreaming = FALSE
    /\ isQuestionPending = FALSE
    /\ pendingQuestionRequestId = NULL
    /\ currentMessageEl = 0
    /\ currentMessageText = EmptyText
    /\ activeSubagents = [id \in SubIds |-> NoPanel]
    /\ eventStream = 0
    /\ stopBtn = "hidden"
    /\ chatContainer = << >>
    /\ streams = [i \in 1..MaxStreams |-> NoStream]
    /\ sessions = {}
    /\ tasks = EmptyBag
    /\ recorded = << >>

Init ==
    /\ InitApp
    /\ personalRules = << "r" >>

LifeEvents ==
    { TextDelta(<< "a" >>),
      ToolEv("t1", "bash", "completed", NULL, "out", NULL),
      QuestionAsked("q1"),
      MsgUpdated("assistant", "stop"),
      Plain("session.error") }

\* a suspended call resumes: its request resolved or threw
TaskStep ==
    \/ \E t \in BagToSet(tasks) : AbortSettles(t)
    \/ \E t \in BagToSet(tasks), h \in Histories, q \in {NULL, "q1"} : LoadSettles(t, h, q)
    \/ \E t \in BagToSet(tasks) : LoadThrows(t)
    \/ \E t \in BagToSet(tasks) : SelectProjectResolves(t)
    \/ \E t \in BagToSet(tasks) : SelectProjectThrows(t)
    \/ \E t \in BagToSet(tasks) : LoadModelsSettles(t)
    \/ \E t \in BagToSet(tasks), first \in ServerSessions \cup {NULL} : GetSessionsResolves(t, first)
    \/ \E t \in BagToSet(tasks) : GetSessionsThrows(t)
    \/ \E t \in BagToSet(tasks), ok \in BOOLEAN : CreateSessionSettles(t, ok)
    \/ \E t \in BagToSet(tasks) : SessionsRefreshed(t)
    \/ \E t \in BagToSet(tasks) : DeleteProjectResolves(t)
    \/ \E t \in BagToSet(tasks) : DeleteProjectThrows(t)
    \/ \E t \in BagToSet(tasks), ok \in BOOLEAN : SendCreateSettles(t, ok)
    \/ \E t \in BagToSet(tasks) : SendReadResolves(t)
    \/ \E t \in BagToSet(tasks), parts \in SyncResponses, info \in BOOLEAN :
           SendPostResolves(t, parts, info)
    \/ \E t \in BagToSet(tasks), is504 \in BOOLEAN : SendPostThrows(t, is504)
    \/ \E t \in BagToSet(tasks), ok \in BOOLEAN : ReplySettles(t, ok)

UserStep ==
    \/ NavProjects
    \/ NavChat
    \/ AbortMessage
    \/ \E sid \in ServerSessions \cup {NewSessionId} : HandleSessionChange(sid)
    \/ \E p \in Projects : SelectProject(p)
    \/ CreateNewSession
    \/ \E p \in Projects : DeleteProject(p)
    \/ \E text \in {EmptyText, UserText}, files \in {0, 1} : SendMessage(text, files)
    \/ \E m \in 1..MaxChat, p \in 1..MaxParts : SubmitQuestionnaire(m, p)

StreamStep ==
    \E i \in 1..MaxStreams :
        \/ \E ev \in LifeEvents : Deliver(i, ev)
        \/ DeliverMalformed(i)

Next ==
    \/ UserStep
    \/ TaskStep
    \/ StreamStep

Spec == Init /\ [][Next]_vars

\* ---------------------------------------------- one message, event by event
\* The state in which the events of one assistant message arrive: project P
\* and session A are selected, the user has sent a message, the assistant
\* message is streaming and the POST of sendMessage is in flight.
Selected ==
    [currentView |-> "chat", currentProject |-> "P", currentSession |-> "A",
     isFirstMessageInSession |-> FALSE, isStreaming |-> FALSE,
     isQuestionPending |-> FALSE, pendingQuestionRequestId |-> NULL,
     currentMessageEl |-> 0, currentMessageText |-> EmptyText,
     activeSubagents |-> [id \in SubIds |-> NoPanel], eventStream |-> 0,
     stopBtn |-> "hidden", chatContainer |-> << >>,
     streams |-> [i \in 1..MaxStreams |-> NoStream],
     sessions |-> ServerSessions, personalRules |-> << "r" >>]

Start(s) ==
    /\ currentView = s.currentView
    /\ currentProject = s.currentProject
    /\ currentSession = s.currentSession
    /\ isFirstMessageInSession = s.isFirstMessageInSession
    /\ isStreaming = s.isStreaming
    /\ isQuestionPending = s.isQuestionPending
    /\ pendingQuestionRequestId = s.pendingQuestionRequestId
    /\ currentMessageEl = s.currentMessageEl
    /\ currentMessageText = s.currentMessageText
    /\ activeSubagents = s.activeSubagents
    /\ eventStream = s.eventStream
    /\ stopBtn = s.stopBtn
    /\ chatContainer = s.chatContainer
    /\ streams = s.streams
    /\ sessions = s.sessions
    /\ personalRules = s.personalRules

InitMsg ==
    /\ Start(SendBody(Selected, UserText))
    /\ tasks = SetToBag({SendTask("postMessage", UserText, 0)})
    /\ recorded = << >>

\* a task tool part of sub-agent id in the given state: completed carries
\* the output, failed the error
SubEv(id, status) ==
    [ToolEv(id, "task", status, NULL, IF status = "completed" THEN "out" ELSE NULL, NULL)
        EXCEPT !.error = IF status = "failed" THEN "err" ELSE NULL]

\* a tool part whose state carries an output and no status
StatuslessTool == ToolEv("t1", "bash", NULL, NULL, "out", NULL)

\* the frames the server sends for the message
MsgDeltas == { << "a" >> }
MsgTexts  == { << "a" >>, << "a", "a" >> }
MsgEvents ==
    { TextDelta(d) : d \in MsgDeltas } \cup { TextFull(t) : t \in MsgTexts } \cup
    { Reasoning(<< "r" >>),
      ToolEv("t1", "bash", "pending", NULL, NULL, NULL),
      ToolEv("t1", "bash", "completed", NULL, "out", "T"),
      ToolEv("t1", "bash", "running", "in", NULL, NULL),
      [ToolEv("t1", "bash", "failed", NULL, NULL, NULL) EXCEPT !.error = "err"],
      StatuslessTool,
      ToolEv("t2", "question", "running", QuestionsInput, NULL, NULL),
      QuestionAsked("q1"),
      MsgUpdated("assistant", "stop"),
      MsgUpdated("assistant", "tool-calls"),
      MsgUpdated("assistant", NULL),
      MsgUpdated("user", "stop"),
      Plain("session.error"),
      Plain("session.idle"),
      Plain("server.heartbeat"),
      Plain("x.unknown"),
      Plain("connection.error") } \cup
    { SubEv(id, st) : id \in SubIds,
                      st \in {"pending", "running", "completed", "failed", "queued"} }

\* the parts of a POST response that carries the whole message
MsgParts ==
    { TextFull(<< "a" >>),
      ToolEv("t1", "bash", "completed", NULL, "out", "T"),
      ToolEv("s1", "task", "completed", NULL, "out", NULL),
      StatuslessTool,
      ToolEv("t2", "question", "running", QuestionsInput, NULL, NULL) }
MsgResponses == { << >> } \cup { << p >> : p \in MsgParts }
                 \cup { << p, q >> : p \in MsgParts, q \in MsgParts }

NextMsg ==
    \/ \E i \in 1..MaxStreams, ev \in MsgEvents : DeliverRecorded(i, ev)
    \/ \E i \in 1..MaxStreams : DeliverMalformedRecorded(i)
    \/ \E i \in 1..MaxStreams : StreamOpens(i)
    \/ \E i \in 1..MaxStreams : StreamErrors(i)
    \/ \E t \in BagToSet(tasks), parts \in MsgResponses, info \in BOOLEAN :
           SendPostResolves(t, parts, info)
    \/ \E t \in BagToSet(tasks), is504 \in BOOLEAN : SendPostThrows(t, is504)

SpecMsg == InitMsg /\ [][NextMsg]_vars

\* ------------------------------------------------ one message that reasons
\* The same message with the frames of a reasoning part, whose text the
\* server sends in full each time (empty while the part has no text yet), and
\* a POST response that carries a reasoning part.
ThinkEvents ==
    { Reasoning(<< "r" >>), Reasoning(<< "s" >>), Reasoning(EmptyText),
      TextDelta(<< "a" >>), MsgUpdated("assistant", "stop") }

NextThink ==
    \/ \E i \in 1..MaxStreams, ev \in ThinkEvents : DeliverRecorded(i, ev)
    \/ \E t \in BagToSet(tasks), parts \in { << >>, << Reasoning(<< "p" >>) >> }, info \in BOOLEAN :
           SendPostResolves(t, parts, info)

SpecThink == InitMsg /\ [][NextThink]_vars

\* ------------------------------------------ sub-agents across two messages
\* The message with the frames of a sub-agent, and what the user can do
\* around it: stop the generation, select the session again (its history is
\* then loaded, empty here) and send the next message.
NextSub ==
    \/ \E i \in 1..MaxStreams,
          ev \in { SubEv("s1", "running"), SubEv("s1", "completed"),
                   TextDelta(<< "a" >>), MsgUpdated("assistant", "stop") } :
           Deliver(i, ev)
    \/ \E t \in BagToSet(tasks), info \in BOOLEAN : SendPostResolves(t, << >>, info)
    \/ AbortMessage
    \/ \E t \in BagToSet(tasks) : AbortSettles(t)
    \/ \E sid \in ServerSessions : HandleSessionChange(sid)
    \/ \E t \in BagToSet(tasks) : LoadSettles(t, << >>, NULL)
    \/ SendMessage(UserText, 0)

SpecSub == InitMsg /\ [][NextSub]_vars

\* ------------------------------------------- one message with two questions
\* The message asks twice before the user answers: two question.asked frames
\* with their own request ids, each rendered as a questionnaire of the
\* message, submitted in either order.
NextTwoAsk ==
    \/ \E i \in 1..MaxStreams,
          ev \in { QuestionAsked("q1"), QuestionAsked("q2"), TextDelta(<< "a" >>) } :
           DeliverRecorded(i, ev)
    \/ \E t \in BagToSet(tasks), info \in BOOLEAN : SendPostResolves(t, << >>, info)
    \/ \E m \in 1..MaxChat, p \in 1..MaxParts : SubmitQuestionnaire(m, p)
    \/ \E t \in BagToSet(tasks), ok \in BOOLEAN : ReplySettles(t, ok)

SpecTwoAsk == InitMsg /\ [][NextTwoAsk]_vars

\* ------------------------------------------------- sends that overlap
\* A project is open and no session is selected yet (the session is created
\* lazily by the first send).  The send button and the Enter key stay usable
\* while a sendMessage call is suspended, so a call can begin before an
\* earlier one has resumed.
InitSend ==
    /\ Start([Selected EXCEPT !.currentSession = NULL, !.sessions = {}])
    /\ tasks = EmptyBag
    /\ recorded = << >>

SendAgain(text, files) ==
    /\ currentView = "chat"
    /\ BagCardinality(tasks) < MaxSends
    /\ HasFreeSlot
    /\ SendCall(St, text, files)

NextSend ==
    \/ \E text \in {EmptyText, UserText}, files \in {0, 1} : SendAgain(text, files)
    \/ \E t \in BagToSet(tasks), ok \in BOOLEAN : SendCreateSettles(t, ok)
    \/ \E t \in BagToSet(tasks) : SendReadResolves(t)
    \/ \E t \in BagToSet(tasks), info \in BOOLEAN : SendPostResolves(t, << >>, info)
    \/ \E t \in BagToSet(tasks), is504 \in BOOLEAN : SendPostThrows(t, is504)
    \/ \E i \in 1..MaxStreams,
          ev \in { TextDelta(<< "a" >>), MsgUpdated("assistant", "stop") } :
           Deliver(i, ev)

SpecSend == InitSend /\ [][NextSend]_vars

\* ------------------------------------------- one message with a questionnaire
\* The same message, followed until its questionnaire is answered: the frames
\* that bring the question, the POST settling, the form being submitted (or
\* submitQuestionnaire being called by a script) and the reply settling.
AskEvents ==
    { TextDelta(<< "a" >>),
      ToolEv("t2", "question", "running", QuestionsInput, NULL, NULL),
      QuestionAsked("q1"),
      MsgUpdated("assistant", "stop") }

NextAsk ==
    \/ \E i \in 1..MaxStreams, ev \in AskEvents : DeliverRecorded(i, ev)
    \/ \E t \in BagToSet(tasks), info \in BOOLEAN : SendPostResolves(t, << >>, info)
    \/ \E m \in 1..MaxChat, p \in 1..MaxParts, questions \in QuestionLists :
           \E inputs \in FormInputs(questions) : SubmitClick(m, p, questions, inputs)
    \/ \E questions \in HeaderLists :
           \E answers \in AnswerObjects(questions) :
               SubmitQuestionnaireDirect(questions, answers)
    \/ \E t \in BagToSet(tasks), ok \in BOOLEAN : ReplySettles(t, ok)

SpecAsk == InitMsg /\ [][NextAsk]_vars

\* ------------------------------------------------ switching between sessions
\* Project P with the sessions B and C, B selected and its history shown.
\* The user picks sessions in the dropdown, also while the history of the
\* session picked before is still awaited, and sends messages.  The history
\* of a session is a user message and an answer whose text names the session.
SwitchSessions == {"B", "C"}
HistoryOf(sid) == << UserMsg, HistMsg("assistant", << TextFull(<< sid >>) >>) >>

InitSwitch ==
    /\ Start(RenderAll([Selected EXCEPT !.currentSession = "B",
                                         !.sessions = SwitchSessions],
                       HistoryOf("B"), 1))
    /\ tasks = EmptyBag
    /\ recorded = << >>

\* the dropdown is used while calls are suspended
SwitchSession(sid) ==
    /\ BagCardinality(tasks) < MaxLoads
    /\ HandleSessionChangeCall(sid)

SwitchEvents == { TextDelta(<< "a" >>), MsgUpdated("assistant", "stop") }

NextSwitch ==
    \/ \E sid \in SwitchSessions : SwitchSession(sid)
    \/ \E t \in BagToSet(tasks) : LoadSettles(t, HistoryOf(t.sid), NULL)
    \/ \E t \in BagToSet(tasks) : LoadThrows(t)
    \/ \E t \in BagToSet(tasks) : AbortSettles(t)
    \/ SendMessage(UserText, 0)
    \/ \E t \in BagToSet(tasks), info \in BOOLEAN : SendPostResolves(t, << >>, info)
    \/ \E i \in 1..MaxStreams, ev \in SwitchEvents : Deliver(i, ev)

SpecSwitch == InitSwitch /\ [][NextSwitch]_vars

\* ------------------------------------------- abortMessage called by a script
\* window.app is public: abortMessage can be called in any state, not only by
\* the stop button and the three callers that test isStreaming first.
NextApi ==
    \/ Next
    \/ AbortCall

SpecApi == Init /\ [][NextApi]_vars

\* ---------------------------------------------- the server's message store
\* The backend that stores the messages is not part of src/.  After the events
\* rec of one message it holds one part per part id, in the order in which the
\* parts first appeared, each in its last state; the text part holds the deltas
\* appended (or the last full text).
PartIndex(parts, ev) ==
    LET Same(p) == p.ptype = ev.ptype /\ p.id = ev.id
    IN IndexOf(parts, Same)

ApplyToParts(parts, ev) ==
    LET i   == PartIndex(parts, ev)
        old == IF i = 0 THEN EmptyText ELSE parts[i].text
        txt == IF ev.ptype = "text" /\ ev.delta # EmptyText THEN old \o ev.delta ELSE ev.text
        new == [ev EXCEPT !.text = txt, !.delta = EmptyText]
    IN IF ev.type # "message.part.updated" THEN parts
       ELSE IF i = 0 THEN Append(parts, new)
       ELSE [parts EXCEPT ![i] = new]

RECURSIVE Materialize(_)
Materialize(rec) ==
    IF rec = << >> THEN << >>
    ELSE ApplyToParts(Materialize(SubSeq(rec, 1, Len(rec) - 1)), rec[Len(rec)])

\* ------------------------------------------------------------------ claims
\* what a message element shows, without the transient streaming indicator
\* and without the attributes that are not displayed
Rendered(msg) ==
    [thinking |-> msg.thinking,
     parts |-> [k \in 1..Len(msg.parts) |->
                  [kind |-> msg.parts[k].kind, tool |-> msg.parts[k].tool,
                   status |-> msg.parts[k].status, input |-> msg.parts[k].input,
                   output |-> msg.parts[k].output, error |-> msg.parts[k].error,
                   title |-> msg.parts[k].title, text |-> msg.parts[k].text]]]

\* the order of a message's parts, their text and their states
Outline(msg) ==
    [thinking |-> msg.thinking,
     parts |-> [k \in 1..Len(msg.parts) |->
                  [kind |-> msg.parts[k].kind, status |-> msg.parts[k].status,
                   text |-> msg.parts[k].text]]]

\* C1: an event delivered on a connection that was opened for a session which
\* is no longer the current one changes nothing of the current session:
\* rendered parts, currentMessageText, activeSubagents, isStreaming and
\* pendingQuestionRequestId stay as they are.
C1_StaleEventChangesNothing ==
    [][ ( \E i \in 1..MaxStreams, ev \in LifeEvents :
            /\ currentSession \in ServerSessions
            /\ streams[i].sess # currentSession
            /\ Deliver(i, ev) )
        => UNCHANGED << chatContainer, currentMessageText, activeSubagents,
                        isStreaming, pendingQuestionRequestId >> ]_vars

\* C2: a step in which handleSessionChange, switching from one session to
\* another, begins the history load of the new session (it selects the
\* session, clears the chat and calls loadSessionMessages) leaves no stream
\* connection open.
C2_NoStreamWhenLoadBegins ==
    [][ ( \/ \E sid \in ServerSessions \cup {NewSessionId} :
                /\ currentSession # NULL
                /\ sid # currentSession
                /\ ~(isStreaming /\ ~AbortReturnsEarly(St))
                /\ HandleSessionChange(sid)
          \/ \E t \in BagToSet(tasks) :
                /\ t.op = "handleSessionChange"
                /\ AbortSettles(t) )
        => OpenStreams(streams') = {} ]_vars

\* C3: in every reachable state at most one EventSource is open.
C3_AtMostOneOpen == Cardinality(OpenStreams(streams)) <= 1

\* a second connection was opened and the one before it is closed
C3_Witness ==
    /\ streams[1].es = "open"
    /\ streams[2].es = "closed"

\* C4: a call of abortMessage made while a stream is active ends in the ready
\* state: when the call returns (after its request settled, or at once),
\* isStreaming is false, no connection is open, App.eventStream is null and
\* the stop button is hidden.
C4_AbortEndsReady ==
    [][ ( \/ \E t \in BagToSet(tasks) : AbortSettles(t)
          \/ /\ isStreaming
             /\ AbortReturnsEarly(St)
             /\ \/ \E p \in Projects : SelectProject(p)
                \/ \E sid \in ServerSessions \cup {NewSessionId} : HandleSessionChange(sid)
                \/ CreateNewSession )
        => /\ ~isStreaming'
           /\ eventStream' = 0
           /\ stopBtn' = "hidden"
           /\ OpenStreams(streams') = {} ]_vars

\* C5: abortMessage called when no stream is active is a no-op: no state
\* changes and no request to the server is started.
C5_AbortIdleIsNoOp ==
    [][ (~isStreaming /\ eventStream = 0 /\ AbortCall) => UNCHANGED vars ]_vars

\* C6: a text event that carries the full text (the text so far followed by
\* d) leaves the same accumulated and rendered text as the event that carries
\* d as delta would.
C6_FullTextLikeDelta ==
    [][ \A i \in 1..MaxStreams, d \in MsgDeltas :
          DeliverRecorded(i, TextFull(currentMessageText \o d))
          => LET viaDelta == OnMessage(St, i, TextDelta(d))
             IN /\ currentMessageText' = viaDelta.currentMessageText
                /\ chatContainer' = viaDelta.chatContainer ]_vars

\* C7: when a tool event (not a sub-agent, not a question) is handled a second
\* time in a row for the current message, the message holds exactly one tool
\* part for its id, and the part shows the event's status and the event's
\* input, output, error and title where the event has them.
C7_SameToolEventTwice ==
    [][ \A i \in 1..MaxStreams, ev \in MsgEvents :
          ( /\ ev.ptype = "tool" /\ ~IsSubagentPart(ev) /\ ev.tool # "question"
            /\ currentMessageEl # 0
            /\ recorded # << >> /\ recorded[Len(recorded)] = ev
            /\ DeliverRecorded(i, ev) )
          => LET parts == chatContainer'[currentMessageEl].parts
                 hits  == {k \in 1..Len(parts) :
                              parts[k].kind = "tool" /\ parts[k].toolId = ev.id}
             IN /\ Cardinality(hits) = 1
                /\ \A k \in hits :
                      /\ parts[k].status = ev.status
                      /\ ev.input # NULL  => parts[k].input = ev.input
                      /\ ev.output # NULL => parts[k].output = ev.output
                      /\ ev.error # NULL  => parts[k].error = ev.error
                      /\ ev.title # NULL  => parts[k].title = ev.title ]_vars

\* C8: after the events of a message (part events, the text as deltas), the
\* streamed message and the message rendered from the server's part list have
\* the same parts in the same order, with the same text and states.
C8_LiveEqualsHistory ==
    ( /\ currentMessageEl # 0
      /\ \A k \in 1..Len(recorded) :
            /\ recorded[k].type = "message.part.updated"
            /\ recorded[k].ptype = "text" => recorded[k].delta # EmptyText )
    => Outline(chatContainer[currentMessageEl])
         = Outline(HistoricalAssistantEl(Materialize(recorded)))

\* C9: the POST response rendered by processMessageResponse into the empty
\* assistant message shows what renderHistoricalMessage shows for the same
\* parts.
C9_SyncEqualsHistory ==
    [][ \A t \in BagToSet(tasks), parts \in MsgResponses, info \in BOOLEAN :
          ( /\ recorded = << >>
            /\ parts # << >>
            /\ currentMessageEl # 0
            /\ SendPostResolves(t, parts, info) )
          => Rendered(chatContainer'[currentMessageEl])
               = Rendered(HistoricalAssistantEl(parts)) ]_vars

\* C10: the current message holds at most one questionnaire that is not
\* answered.
C10_OneOpenQuestionnaire ==
    currentMessageEl # 0 =>
        LET parts == chatContainer[currentMessageEl].parts
        IN Cardinality({k \in 1..Len(parts) :
                           parts[k].kind = "question" /\ ~parts[k].disabled}) <= 1

\* C11: in every reachable state the input is in question mode exactly when
\* a pending question request id is held.
C11_QuestionModeIffPending ==
    isQuestionPending <=> (pendingQuestionRequestId # NULL)

\* C14: in every state where a stream is active, a sendMessage call with a
\* text is rejected with a notification, changes nothing and requests
\* nothing.
C14_SendWhileStreamingRejected ==
    (isStreaming /\ currentView = "chat" /\ currentProject # NULL)
    => LET r == SendStart(St, UserText, 0)
       IN r.pc = "return" /\ r.s = St /\ r.toast # NULL

\* C15: a sendMessage call with neither text nor attachment, or with no
\* project selected, raises a notification, makes no request and leaves
\* question mode, pendingQuestionRequestId, isStreaming, the session and the
\* transcript as they were.
C15_EmptySendChangesNothing ==
    [][ \A text \in {EmptyText, UserText}, files \in {0, 1} :
          ( /\ (text = EmptyText /\ files = 0) \/ currentProject = NULL
            /\ SendMessage(text, files) )
          => /\ SendStart(St, text, files).toast # NULL
             /\ UNCHANGED << isQuestionPending, pendingQuestionRequestId, isStreaming,
                             currentSession, chatContainer, tasks >> ]_vars

\* C12: after the events pending, running, completed of a sub-agent id, in
\* that order, the current message holds exactly one sub-agent panel for the
\* id, its state is completed, and the id is in neither tracking map.
C12_SubagentLifecycle ==
    \A id \in SubIds :
        ( /\ currentMessageEl # 0
          /\ recorded = << SubEv(id, "pending"), SubEv(id, "running"), SubEv(id, "completed") >> )
        => LET parts  == chatContainer[currentMessageEl].parts
               panels == {k \in 1..Len(parts) :
                             parts[k].kind = "subagent" /\ parts[k].toolId = id}
           IN /\ Cardinality(panels) = 1
              /\ \A k \in panels : parts[k].status = "completed" /\ parts[k].output = "out"
              /\ ~activeSubagents[id].has
              /\ \A j \in 1..MaxStreams : id \notin streams[j].subs

C12_Witness ==
    /\ currentMessageEl # 0
    /\ recorded = << SubEv("s1", "pending"), SubEv("s1", "running"), SubEv("s1", "completed") >>
    /\ \E k \in 1..Len(chatContainer[currentMessageEl].parts) :
          chatContainer[currentMessageEl].parts[k].kind = "subagent"

\* C13: an event for a sub-agent id leaves every panel of that id that is
\* already completed or failed (and no longer tracked) as it is.
C13_TerminalPanelUntouched ==
    [][ \A i \in 1..MaxStreams, ev \in MsgEvents :
          ( /\ currentMessageEl # 0
            /\ ev.ptype = "tool" /\ IsSubagentPart(ev)
            /\ DeliverRecorded(i, ev) )
          => LET m     == currentMessageEl
                 parts == chatContainer[m].parts
             IN \A k \in 1..Len(parts) :
                   ( /\ parts[k].kind = "subagent"
                     /\ parts[k].toolId = ev.id
                     /\ parts[k].status \in {"completed", "failed"}
                     /\ activeSubagents[ev.id] # PanelAt(m, k) )
                   => chatContainer'[m].parts[k] = parts[k] ]_vars

\* C16: when the POST of sendMessage fails with a 504 while the stream
\* connection is open and alive, nothing is notified and streaming goes on
\* with the connection as it is; on a 504 without an open and alive
\* connection, or on any other failure, streaming is stopped and an error is
\* notified.
C16_TimeoutOnlyIgnoredWhenAlive ==
    [][ \A t \in BagToSet(tasks), is504 \in BOOLEAN :
          SendPostThrows(t, is504)
          => LET alive == /\ eventStream # 0
                          /\ streams[eventStream].es = "open"
                          /\ streams[eventStream].connected
             IN IF is504 /\ alive
                THEN /\ PostThrowsToast(St, is504) = NULL
                     /\ UNCHANGED << isStreaming, eventStream, streams, stopBtn >>
                ELSE /\ PostThrowsToast(St, is504) # NULL
                     /\ ~isStreaming'
                     /\ stopBtn' = "hidden" ]_vars

\* C18: a message.updated frame of a user message, or without finish, changes
\* nothing; with finish tool-calls the message keeps generating and the
\* connection stays; with any other finish streaming is stopped, the
\* connection is closed and the footer is put on the message (its streaming
\* indicator goes, its parts stay).
C18_MessageUpdated ==
    [][ \A i \in 1..MaxStreams, ev \in MsgEvents :
          (ev.type = "message.updated" /\ DeliverRecorded(i, ev))
          => IF ev.role # "assistant" \/ ev.finish = NULL \/ ev.finish = "tool-calls"
             THEN UNCHANGED << currentView, currentProject, currentSession,
                               isFirstMessageInSession, isStreaming, isQuestionPending,
                               pendingQuestionRequestId, currentMessageEl,
                               currentMessageText, activeSubagents, eventStream,
                               stopBtn, chatContainer, streams, sessions, tasks >>
             ELSE /\ ~isStreaming'
                  /\ stopBtn' = "hidden"
                  /\ eventStream' = 0
                  /\ OpenStreams(streams') = {}
                  /\ currentMessageEl # 0 => ~chatContainer'[currentMessageEl].indicator
                  /\ currentMessageEl # 0 =>
                        chatContainer'[currentMessageEl].parts
                          = chatContainer[currentMessageEl].parts ]_vars

C18_Witness ==
    /\ Len(recorded) = 3
    /\ recorded[1] = MsgUpdated("assistant", "tool-calls")
    /\ recorded[2] = MsgUpdated("user", "stop")
    /\ recorded[3] = MsgUpdated("assistant", "stop")
    /\ ~isStreaming
    /\ eventStream = 0

\* C19: an EventSource error or a connection.error frame on the connection of
\* a streaming message is notified as an error and ends the streaming state
\* (isStreaming false, stop button hidden), the transcript staying as it is.
C19_TransportErrorEndsStreaming ==
    [][ \A i \in 1..MaxStreams :
          ( /\ isStreaming
            /\ i = eventStream
            /\ StreamErrors(i) \/ DeliverRecorded(i, Plain("connection.error")) )
          => /\ StreamToast("error") # NULL
             /\ ~isStreaming'
             /\ stopBtn' = "hidden"
             /\ chatContainer' = chatContainer ]_vars

\* C20: a session.error frame is notified as an error, stops streaming,
\* closes the connection and clears both sub-agent tracking maps; the
\* transcript stays as it is.
C20_SessionErrorTerminates ==
    [][ \A i \in 1..MaxStreams :
          DeliverRecorded(i, Plain("session.error"))
          => /\ StreamToast(handleEvent(Plain("session.error")).etype) = "error"
             /\ ~isStreaming'
             /\ stopBtn' = "hidden"
             /\ eventStream' = 0
             /\ OpenStreams(streams') = {}
             /\ \A id \in SubIds : ~activeSubagents'[id].has
             /\ \A j \in 1..MaxStreams : streams'[j].subs = {}
             /\ chatContainer' = chatContainer ]_vars

C20_Witness ==
    /\ Len(recorded) = 3
    /\ recorded[1] = TextDelta(<< "a" >>)
    /\ recorded[2] = SubEv("s1", "running")
    /\ recorded[3] = Plain("session.error")
    /\ ~isStreaming
    /\ eventStream = 0
    /\ currentMessageEl # 0
    /\ Len(chatContainer[currentMessageEl].parts) = 2

\* C17: the answers array submitQuestionnaire passes to the reply endpoint
\* has one entry per question, in the order of the questions: after the form
\* was submitted, entry i holds the labels the user gave for question i (one
\* label for a single choice or a text); after a call with any answers
\* object, entry i is the array under the key of question i, the scalar under
\* it wrapped in an array, or the empty list when the key or its value is
\* missing.
C17_OneEntryPerQuestion ==
    [][ /\ \A m \in 1..MaxChat, p \in 1..MaxParts, questions \in QuestionLists :
             \A inputs \in FormInputs(questions) :
                ( /\ pendingQuestionRequestId # NULL
                  /\ currentProject # NULL
                  /\ SubmitClick(m, p, questions, inputs) )
                => \E t \in BagToSet(tasks') :
                      /\ t.pc = "replyQuestion"
                      /\ Len(t.answers) = Len(questions)
                      /\ \A i \in 1..Len(questions) : t.answers[i] = inputs[i]
        /\ \A questions \in HeaderLists :
             \A answers \in AnswerObjects(questions) :
                ( /\ pendingQuestionRequestId # NULL
                  /\ currentProject # NULL
                  /\ SubmitQuestionnaireDirect(questions, answers) )
                => \E t \in BagToSet(tasks') :
                      /\ t.pc = "replyQuestion"
                      /\ Len(t.answers) = Len(questions)
                      /\ \A i \in 1..Len(questions) :
                            LET k == QuestionKey(questions, i)
                            IN t.answers[i] =
                                 IF k \notin DOMAIN answers \/ answers[k].items = << >>
                                 THEN << >>
                                 ELSE IF answers[k].isArray THEN answers[k].items
                                 ELSE << answers[k].items[1] >> ]_vars

\* the chat shows a message of the user
HasUserMessage(chat) == \E m \in 1..Len(chat) : chat[m].role = "user"

\* C21: whenever sendMessage builds a POST body with the personal rules
\* prepended, the message is the first one of its session: the transcript
\* holds no message of the user yet, and the session is not one that was
\* loaded from the server's history.
C21_RulesOnlyOnFirstMessage ==
    [][ /\ \A text \in {EmptyText, UserText}, files \in {0, 1} :
             ( /\ SendMessage(text, files)
               /\ SendStart(St, text, files).pc = "postMessage"
               /\ PrependsRules(St, text) )
             => ~HasUserMessage(chatContainer) /\ currentSession \notin ServerSessions
        /\ \A t \in BagToSet(tasks) :
             (SendReadResolves(t) /\ PrependsRules(St, t.text))
             => ~HasUserMessage(chatContainer) /\ currentSession \notin ServerSessions
        /\ \A t \in BagToSet(tasks) :
             ( /\ SendCreateSettles(t, TRUE)
               /\ t.files = 0
               /\ PrependsRules([St EXCEPT !.isFirstMessageInSession = TRUE], t.text) )
             => ~HasUserMessage(chatContainer) ]_vars

\* C22: a frame that is not JSON changes nothing: every field of App, the
\* transcript, the suspended calls and the connection (still open, its flag
\* and its sub-agent map as they were) stay as they are; and a well-formed
\* frame that follows it on the connection is handled as if the bad frame had
\* never come.
C22_MalformedFrameDropped ==
    [][ /\ \A i \in 1..MaxStreams :
             DeliverMalformedRecorded(i)
             => /\ UNCHANGED << currentView, currentProject, currentSession,
                                isFirstMessageInSession, isStreaming, isQuestionPending,
                                pendingQuestionRequestId, currentMessageEl,
                                currentMessageText, activeSubagents, eventStream,
                                stopBtn, chatContainer, streams, sessions,
                                personalRules, tasks >>
                /\ streams'[i].es = "open"
        /\ \A i \in 1..MaxStreams, ev \in MsgEvents :
             ( /\ recorded # << >>
               /\ recorded[Len(recorded)] = MalformedEv
               /\ DeliverRecorded(i, ev) )
             => LET e == handleEvent(ev)
                IN e.etype # "none"
                   => /\ chatContainer' = handleStreamEvent(St, e.etype, e.d).chatContainer
                      /\ isStreaming' = handleStreamEvent(St, e.etype, e.d).isStreaming ]_vars

\* a bad frame came first and the text frame after it was rendered
C22_Witness ==
    /\ recorded = << MalformedEv, TextDelta(<< "a" >>) >>
    /\ currentMessageEl # 0
    /\ \E k \in 1..Len(chatContainer[currentMessageEl].parts) :
          /\ chatContainer[currentMessageEl].parts[k].kind = "text"
          /\ chatContainer[currentMessageEl].parts[k].text = << "a" >>
    /\ eventStream # 0
    /\ streams[eventStream].es = "open"

\* C23: the chat container holds the history of no session other than the
\* selected one: a text that names a session is only shown while that session
\* is the current one.
C23_OnlySelectedTranscript ==
    \A m \in 1..Len(chatContainer), sid \in SwitchSessions :
        (\E k \in 1..Len(chatContainer[m].parts) :
            /\ chatContainer[m].parts[k].kind = "text"
            /\ chatContainer[m].parts[k].text = << sid >>)
        => sid = currentSession

\* C24: handling question.asked leaves App.eventStream and every connection
\* as they are (nothing is closed, nothing is opened), and so does the reply
\* when it succeeds: streaming is on again with the same connection, on which
\* the frames of the continuation are then handled.
C24_QuestionKeepsConnection ==
    [][ /\ \A i \in 1..MaxStreams, q \in QuestionIds :
             DeliverRecorded(i, QuestionAsked(q))
             => UNCHANGED << eventStream, streams >>
        /\ \A t \in BagToSet(tasks) :
             ReplySettles(t, TRUE)
             => /\ UNCHANGED << eventStream, streams >>
                /\ isStreaming' ]_vars

\* the question came, the reply succeeded and a text frame of the
\* continuation was rendered, all on the connection sendMessage had opened
C24_Witness ==
    /\ recorded = << QuestionAsked("q1"), TextDelta(<< "a" >>) >>
    /\ tasks = EmptyBag
    /\ pendingQuestionRequestId = NULL
    /\ isStreaming
    /\ eventStream = 1
    /\ streams[1].es = "open"
    /\ streams[2].es = "none"
    /\ currentMessageEl # 0
    /\ \E k \in 1..Len(chatContainer[currentMessageEl].parts) :
          /\ chatContainer[currentMessageEl].parts[k].kind = "text"
          /\ chatContainer[currentMessageEl].parts[k].text = << "a" >>

\* C25: when loadSessionMessages has rendered the history it fetched, the
\* input is in question mode only if the session has a pending question on
\* the server and the last message of the history holds an unanswered
\* question.
C25_QuestionModeAfterLoad ==
    [][ \A t \in BagToSet(tasks), h \in Histories, q \in {NULL, "q1"} :
          LoadSettles(t, h, q)
          => ( isQuestionPending'
               => /\ q # NULL
                  /\ h # << >>
                  /\ h[Len(h)].role = "assistant"
                  /\ HasOpenQuestion(h[Len(h)].parts) ) ]_vars

\* C26: a question.asked handled for the current message sets
\* pendingQuestionRequestId to its id; the id is null when the reply of
\* submitQuestionnaire has settled, with or without success, and when
\* sendMessage has sent a new message.
C26_PendingIdSetAndCleared ==
    [][ /\ \A i \in 1..MaxStreams :
             (currentMessageEl # 0 /\ Deliver(i, QuestionAsked("q1")))
             => pendingQuestionRequestId' = "q1"
        /\ \A t \in BagToSet(tasks), ok \in BOOLEAN :
             ReplySettles(t, ok) => pendingQuestionRequestId' = NULL
        /\ \A text \in {EmptyText, UserText}, files \in {0, 1} :
             ( /\ SendMessage(text, files)
               /\ SendStart(St, text, files).pc = "postMessage" )
             => pendingQuestionRequestId' = NULL ]_vars

\* C27: submitting a questionnaire starts no sendMessage request (no session
\* is created for it, no attachment read, nothing posted to the message
\* endpoint): with a project selected, the one call it starts is the reply to
\* the question request.
C27_AnswerNeverResends ==
    [][ \A m \in 1..MaxChat, p \in 1..MaxParts :
          SubmitQuestionnaire(m, p)
          => /\ \A t \in BagToSet(tasks') : t.op # "sendMessage"
             /\ currentProject # NULL
                => \E t \in BagToSet(tasks') :
                      t.op = "submitQuestionnaire" /\ t.pc = "replyQuestion" ]_vars

\* the tool parts of the current message that carry the id of event ev
ToolHits(chat, m, ev) ==
    IF m = 0 THEN {}
    ELSE {k \in 1..Len(chat[m].parts) :
             chat[m].parts[k].kind = "tool" /\ chat[m].parts[k].toolId = ev.id}

\* C28: when a tool event (not a sub-agent, not a question) arrives for an id
\* already rendered in the current message, each of input, output, error and
\* title that is null in the event keeps its stored value, so a stored
\* non-null value is never replaced by null.
C28_NullNeverOverwrites ==
    [][ \A i \in 1..MaxStreams, ev \in MsgEvents :
          ( /\ ev.ptype = "tool" /\ ~IsSubagentPart(ev) /\ ev.tool # "question"
            /\ ToolHits(chatContainer, currentMessageEl, ev) # {}
            /\ DeliverRecorded(i, ev) )
          => /\ currentMessageEl' = currentMessageEl
             /\ \A k \in ToolHits(chatContainer, currentMessageEl, ev) :
                  LET old == chatContainer[currentMessageEl].parts[k]
                      new == chatContainer'[currentMessageEl].parts[k]
                  IN /\ new.kind = "tool" /\ new.toolId = ev.id
                     /\ ev.input = NULL  => new.input = old.input
                     /\ ev.output = NULL => new.output = old.output
                     /\ ev.error = NULL  => new.error = old.error
                     /\ ev.title = NULL  => new.title = old.title
                     /\ old.input # NULL  => new.input # NULL
                     /\ old.output # NULL => new.output # NULL
                     /\ old.error # NULL  => new.error # NULL
                     /\ old.title # NULL  => new.title # NULL ]_vars

\* a completed tool with output and title was rendered, then the late
\* "pending" event of the same id was handled: output and title are kept
C28_Witness ==
    /\ Len(recorded) >= 2
    /\ recorded[Len(recorded) - 1] = ToolEv("t1", "bash", "completed", NULL, "out", "T")
    /\ recorded[Len(recorded)] = ToolEv("t1", "bash", "pending", NULL, NULL, NULL)
    /\ currentMessageEl # 0
    /\ \E k \in ToolHits(chatContainer, currentMessageEl,
                         ToolEv("t1", "bash", "pending", NULL, NULL, NULL)) :
          LET p == chatContainer[currentMessageEl].parts[k]
          IN p.status = "pending" /\ p.output = "out" /\ p.title = "T"

\* C29: when a tool event (not a sub-agent, not a question) arrives for an id
\* already rendered in the current message, every non-null field of the event
\* among status, input, output, error and title replaces the stored one; for an
\* id not yet rendered, a new tool part with that id is appended at the tail of
\* the current message's parts.
C29_LaterEventWins ==
    [][ \A i \in 1..MaxStreams, ev \in MsgEvents :
          ( /\ ev.ptype = "tool" /\ ~IsSubagentPart(ev) /\ ev.tool # "question"
            /\ currentMessageEl # 0
            /\ DeliverRecorded(i, ev) )
          => LET hits == ToolHits(chatContainer, currentMessageEl, ev)
                 olds == chatContainer[currentMessageEl].parts
                 news == chatContainer'[currentMessageEl].parts
             IN /\ currentMessageEl' = currentMessageEl
                /\ hits # {} =>
                     \A k \in hits :
                        /\ ev.status # NULL => news[k].status = ev.status
                        /\ ev.input # NULL  => news[k].input = ev.input
                        /\ ev.output # NULL => news[k].output = ev.output
                        /\ ev.error # NULL  => news[k].error = ev.error
                        /\ ev.title # NULL  => news[k].title = ev.title
                /\ hits = {} =>
                     /\ Len(news) = Len(olds) + 1
                     /\ SubSeq(news, 1, Len(olds)) = olds
                     /\ news[Len(news)].kind = "tool"
                     /\ news[Len(news)].toolId = ev.id ]_vars

\* the sub-agent panels of the chat: << message, part >> positions
Panels(chat) ==
    {<< m, k >> \in (1..Len(chat)) \X (1..MaxParts) :
        k <= Len(chat[m].parts) /\ chat[m].parts[k].kind = "subagent"}

\* C30: a sub-agent event whose status is none of pending, running, completed,
\* failed creates no panel, leaves the recorded status of every panel as it
\* was, and leaves the membership of its id in App.activeSubagents as it was.
C30_UpdateOnlyPatches ==
    [][ \A i \in 1..MaxStreams, ev \in MsgEvents :
          ( /\ ev.ptype = "tool" /\ IsSubagentPart(ev) /\ ~IsLifecycle(ev.status)
            /\ DeliverRecorded(i, ev) )
          => /\ Len(chatContainer') = Len(chatContainer)
             /\ Panels(chatContainer') = Panels(chatContainer)
             /\ \A x \in Panels(chatContainer) :
                   chatContainer'[x[1]].parts[x[2]].status
                      = chatContainer[x[1]].parts[x[2]].status
             /\ activeSubagents'[ev.id].has = activeSubagents[ev.id].has ]_vars

\* C31: handling session.idle empties App.activeSubagents and changes nothing
\* else: the chat container, the current message and its text, isStreaming,
\* the stop button, the stream objects and App.eventStream, the pending
\* question and every other field of App stay as they are.
C31_SessionIdleOnlyClearsMap ==
    [][ \A i \in 1..MaxStreams :
          DeliverRecorded(i, Plain("session.idle"))
          => /\ activeSubagents' = [id \in SubIds |-> NoPanel]
             /\ UNCHANGED << currentView, currentProject, currentSession,
                             isFirstMessageInSession, isStreaming, isQuestionPending,
                             pendingQuestionRequestId, currentMessageEl,
                             currentMessageText, eventStream, stopBtn,
                             chatContainer, streams, sessions, personalRules,
                             tasks >> ]_vars

\* a running sub-agent had its panel tracked, then session.idle came: the map
\* is empty, the panel is still in the message and the message still streams
C31_Witness ==
    /\ recorded = << SubEv("s1", "running"), Plain("session.idle") >>
    /\ activeSubagents["s1"] = NoPanel
    /\ Panels(chatContainer) # {}
    /\ isStreaming
    /\ eventStream # 0
    /\ streams[eventStream].es = "open"

\* C33: a server.heartbeat frame and a frame of a type handleEvent does not
\* know change nothing (the transcript, the streaming state, both sub-agent
\* maps, the pending question, the connection), and a frame that follows one
\* of them on the connection is handled as it is without them.
C33_HeartbeatAndUnknownNoOp ==
    [][ /\ \A i \in 1..MaxStreams, ev \in {Plain("server.heartbeat"), Plain("x.unknown")} :
             DeliverRecorded(i, ev)
             => /\ UNCHANGED << currentView, currentProject, currentSession,
                                isFirstMessageInSession, isStreaming, isQuestionPending,
                                pendingQuestionRequestId, currentMessageEl,
                                currentMessageText, activeSubagents, eventStream,
                                stopBtn, chatContainer, streams, sessions,
                                personalRules, tasks >>
                /\ streams'[i].es = "open"
        /\ \A i \in 1..MaxStreams, ev \in MsgEvents :
             ( /\ recorded # << >>
               /\ recorded[Len(recorded)] \in {Plain("server.heartbeat"), Plain("x.unknown")}
               /\ DeliverRecorded(i, ev) )
             => LET e == handleEvent(ev)
                IN e.etype # "none"
                   => /\ chatContainer' = handleStreamEvent(St, e.etype, e.d).chatContainer
                      /\ isStreaming' = handleStreamEvent(St, e.etype, e.d).isStreaming ]_vars

\* a heartbeat and an unknown frame came, and the text frame after them was
\* rendered on the same open connection
C33_Witness ==
    /\ recorded = << Plain("server.heartbeat"), Plain("x.unknown"), TextDelta(<< "a" >>) >>
    /\ currentMessageEl # 0
    /\ \E k \in 1..Len(chatContainer[currentMessageEl].parts) :
          /\ chatContainer[currentMessageEl].parts[k].kind = "text"
          /\ chatContainer[currentMessageEl].parts[k].text = << "a" >>
    /\ isStreaming
    /\ eventStream # 0
    /\ streams[eventStream].es = "open"

\* the tool parts of message msg that show tool, status and output as given
ShownAs(msg, tool, status, output) ==
    {k \in 1..Len(msg.parts) :
        /\ msg.parts[k].kind = "tool" /\ msg.parts[k].tool = tool
        /\ msg.parts[k].status = status /\ msg.parts[k].output = output}

\* C32: a tool part without status is rendered as a completed tool call on
\* each path: by the history replay, by the synchronous POST response, and
\* when it arrives as a frame of the live stream for the current message.
C32_MissingStatusIsCompleted ==
    [][ /\ ShownAs(HistoricalAssistantEl(<< StatuslessTool >>),
                   "bash", "completed", "out") # {}
        /\ currentMessageEl # 0
           => ShownAs(processMessageResponse(St, << StatuslessTool >>, FALSE)
                         .chatContainer[currentMessageEl],
                      "bash", "completed", "out") # {}
        /\ \A i \in 1..MaxStreams :
             ( /\ currentMessageEl # 0
               /\ ToolHits(chatContainer, currentMessageEl, StatuslessTool) = {}
               /\ DeliverRecorded(i, StatuslessTool) )
             => /\ currentMessageEl' = currentMessageEl
                /\ ShownAs(chatContainer'[currentMessageEl],
                           "bash", "completed", "out") # {} ]_vars

ToolResults(msg, tool) ==
    {k \in 1..Len(msg.parts) : msg.parts[k].kind = "tool" /\ msg.parts[k].tool = tool}

\* C35: when the POST of the current message resolves with parts after frames
\* of the stream were applied to that message, the message shows its text in
\* one text element and, for a response with one bash tool part, one bash tool
\* result.
C35_StreamAndResponseOnce ==
    [][ \A t \in BagToSet(tasks), parts \in MsgResponses, info \in BOOLEAN :
          ( /\ currentMessageEl # 0 /\ parts # << >> /\ recorded # << >>
            /\ SendPostResolves(t, parts, info) )
          => LET msg == chatContainer'[currentMessageEl]
             IN /\ Cardinality({k \in 1..Len(msg.parts) : msg.parts[k].kind = "text"}) <= 1
                /\ Cardinality({j \in 1..Len(parts) :
                                  IsPlainTool(parts[j]) /\ parts[j].tool = "bash"}) = 1
                   => Cardinality(ToolResults(msg, "bash")) = 1 ]_vars

\* C36: whenever isStreaming is true, App.eventStream refers to a stream
\* object whose connection is open.
C36_StreamingHasConnection ==
    isStreaming => eventStream # 0 /\ streams[eventStream].es = "open"

\* C37: App.activeSubagents holds only panels of the current message: it is
\* empty once abortMessage has finished and once a session change has cleared
\* the chat, and every panel it refers to is a part of the message the stream
\* is writing to.
C37_MapOnlyCurrentMessage ==
    [][ /\ \A t \in BagToSet(tasks) :
             AbortSettles(t) => activeSubagents' = [id \in SubIds |-> NoPanel]
        /\ \A id \in SubIds :
             activeSubagents'[id].has
             => /\ currentMessageEl' # 0
                /\ activeSubagents'[id].m = currentMessageEl' ]_vars

\* C38: on a connection that stays open, handling a sub-agent frame leaves its
\* id in EventStream.activeSubagents exactly when the frame's status is neither
\* completed nor failed, and handling any other frame leaves the membership of
\* every id as it was; a stream object that is not open has an empty map.
C38_StreamMapFollowsLatest ==
    [][ /\ \A i \in 1..MaxStreams, ev \in MsgEvents :
             ( DeliverRecorded(i, ev) /\ streams'[i].es = "open" )
             => \A id \in SubIds :
                   (id \in streams'[i].subs) =
                      IF ev.ptype = "tool" /\ IsSubagentPart(ev) /\ ev.id = id
                      THEN ev.status \notin {"completed", "failed"}
                      ELSE id \in streams[i].subs
        /\ \A i \in 1..MaxStreams :
             streams'[i].es # "open" => streams'[i].subs = {} ]_vars

\* running, completed, then running again for the same id on the open
\* connection: the id is in the map
C38_Witness ==
    /\ recorded = << SubEv("s1", "running"), SubEv("s1", "completed"),
                     SubEv("s1", "running") >>
    /\ eventStream # 0
    /\ streams[eventStream].es = "open"
    /\ "s1" \in streams[eventStream].subs

\* the number of sendMessage calls suspended at the await pc
SendsAt(pc) ==
    LET S == {t \in BagToSet(tasks) : t.op = "sendMessage" /\ t.pc = pc}
    IN IF S = {} THEN 0 ELSE BagCardinality([t \in S |-> CopiesIn(t, tasks)])

\* C39: of the sendMessage calls that overlap, at most one is creating a
\* session and at most one has its message POST in flight.
C39_OverlappingSendsExclude ==
    /\ SendsAt("createSession") <= 1
    /\ SendsAt("postMessage") <= 1

\* C40: when the questionnaire that a question.asked frame created is
\* submitted, the reply that is sent carries the request id of that frame.
C40_ReplyToOwnRequest ==
    [][ \A m \in 1..MaxChat, p \in 1..MaxParts :
          ( /\ m <= Len(chatContainer)
            /\ p <= Len(chatContainer[m].parts)
            /\ chatContainer[m].parts[p].kind = "question"
            /\ chatContainer[m].parts[p].req # NULL
            /\ SubmitQuestionnaire(m, p) )
          => \E t \in BagToSet(tasks') :
                /\ t.op = "submitQuestionnaire"
                /\ t.pc = "replyQuestion"
                /\ t.req = chatContainer[m].parts[p].req ]_vars

TypeOK ==
    /\ currentView \in {"projects", "chat"}
    /\ currentProject \in Projects \cup {NULL}
    /\ isStreaming \in BOOLEAN
    /\ eventStream \in 0..MaxStreams
    /\ BagCardinality(tasks) <= MaxTasks

====
